---- MODULE Spec2Model ----
(***************************************************************************)
(* A model of comprehension-as-code: the confidence transition rules, the  *)
(* Bayesian update operator, the observation lifecycle tracker, the        *)
(* observation reference index, the belief store, the similarity finder    *)
(* over the vector store, and the accumulation tracker.                    *)
(*                                                                         *)
(* Python values are modelled as follows.  A str is a tuple of tokens (an  *)
(* f-string is the tuple of its pieces), and None is the empty tuple: no   *)
(* modelled text is empty.  An observation id is a number of ObsIds.  A    *)
(* Comprehension is a record of the fields the update reads or writes.    *)
(* A call's outcome is recorded in the variable `call`, with the state of  *)
(* the argument object after the call next to the returned value, so that  *)
(* an in-place change of the argument is a visible difference.  A call on  *)
(* the tracker, the index, the store, the finder or the accumulation       *)
(* tracker is recorded in the variable `last`.                             *)
(* An SQLite table is its rows: observation_refs the number of rows of     *)
(* each key, so that a second row of an edge would be a visible            *)
(* difference, the other tables the set of their rows.                     *)
(* The variable `str_hash` is the value of hash() on each id in the        *)
(* running process, and `pc` is, for each of two callers of the same       *)
(* database, the operation it is inside and that operation's locals: an    *)
(* operation of several committed statements is one step per statement.    *)
(***************************************************************************)
EXTENDS Integers, Sequences, FiniteSets, TLC

(* ------------------------------ bounds -------------------------------- *)

\* Number of distinct observation ids offered to bayesian_update.
NumObs == 2

\* Number of distinct observation ids offered to the lifecycle tracker.
NumTracked == 3

ObsIds == 1..NumObs

TrackedIds == 1..NumTracked

(* ------------------------- schema/confidence.py ----------------------- *)

HIGH == "high"

MEDIUM == "medium"

LOW == "low"

UNKNOWN == "unknown"

ConfidenceLevel == {HIGH, MEDIUM, LOW, UNKNOWN}

(* --------------------------- store/queries.py ------------------------- *)

\* The dict CONFIDENCE_ORDER: the ordinal of each confidence level.
CONFIDENCE_ORDER ==
    (UNKNOWN :> 0) @@ (LOW :> 1) @@ (MEDIUM :> 2) @@ (HIGH :> 3)

(* --------------------- update/confidence_rules.py --------------------- *)

CONFIRMING == "confirming"

CONTRADICTING == "contradicting"

NEUTRAL == "neutral"

EvidenceType == {CONFIRMING, CONTRADICTING, NEUTRAL}

\* A plausible slip in the table: a contradiction demotes MEDIUM by no step.
CONFIDENCE_TRANSITIONS_medium_kept ==
    (<<UNKNOWN, CONFIRMING>>    :> LOW)     @@
    (<<UNKNOWN, CONTRADICTING>> :> LOW)     @@
    (<<UNKNOWN, NEUTRAL>>       :> UNKNOWN) @@
    (<<LOW, CONFIRMING>>        :> MEDIUM)  @@
    (<<LOW, CONTRADICTING>>     :> LOW)     @@
    (<<LOW, NEUTRAL>>           :> LOW)     @@
    (<<MEDIUM, CONFIRMING>>     :> HIGH)    @@
    (<<MEDIUM, CONTRADICTING>>  :> MEDIUM)  @@
    (<<MEDIUM, NEUTRAL>>        :> MEDIUM)  @@
    (<<HIGH, CONFIRMING>>       :> HIGH)    @@
    (<<HIGH, CONTRADICTING>>    :> MEDIUM)  @@
    (<<HIGH, NEUTRAL>>          :> HIGH)

\* A plausible slip in the table: a contradiction of a LOW belief promotes it.
CONFIDENCE_TRANSITIONS_low_promoted ==
    (<<UNKNOWN, CONFIRMING>>    :> LOW)     @@
    (<<UNKNOWN, CONTRADICTING>> :> LOW)     @@
    (<<UNKNOWN, NEUTRAL>>       :> UNKNOWN) @@
    (<<LOW, CONFIRMING>>        :> MEDIUM)  @@
    (<<LOW, CONTRADICTING>>     :> MEDIUM)  @@
    (<<LOW, NEUTRAL>>           :> LOW)     @@
    (<<MEDIUM, CONFIRMING>>     :> HIGH)    @@
    (<<MEDIUM, CONTRADICTING>>  :> LOW)     @@
    (<<MEDIUM, NEUTRAL>>        :> MEDIUM)  @@
    (<<HIGH, CONFIRMING>>       :> HIGH)    @@
    (<<HIGH, CONTRADICTING>>    :> MEDIUM)  @@
    (<<HIGH, NEUTRAL>>          :> HIGH)

\* A plausible slip in the table: a contradiction of a LOW belief makes it
\* UNKNOWN.
CONFIDENCE_TRANSITIONS_low_forgotten ==
    (<<UNKNOWN, CONFIRMING>>    :> LOW)     @@
    (<<UNKNOWN, CONTRADICTING>> :> LOW)     @@
    (<<UNKNOWN, NEUTRAL>>       :> UNKNOWN) @@
    (<<LOW, CONFIRMING>>        :> MEDIUM)  @@
    (<<LOW, CONTRADICTING>>     :> UNKNOWN) @@
    (<<LOW, NEUTRAL>>           :> LOW)     @@
    (<<MEDIUM, CONFIRMING>>     :> HIGH)    @@
    (<<MEDIUM, CONTRADICTING>>  :> LOW)     @@
    (<<MEDIUM, NEUTRAL>>        :> MEDIUM)  @@
    (<<HIGH, CONFIRMING>>       :> HIGH)    @@
    (<<HIGH, CONTRADICTING>>    :> MEDIUM)  @@
    (<<HIGH, NEUTRAL>>          :> HIGH)

\* The dict CONFIDENCE_TRANSITIONS: (current_confidence, evidence_type) -> new.
CONFIDENCE_TRANSITIONS ==
    (<<UNKNOWN, CONFIRMING>>    :> LOW)     @@
    (<<UNKNOWN, CONTRADICTING>> :> LOW)     @@
    (<<UNKNOWN, NEUTRAL>>       :> UNKNOWN) @@
    (<<LOW, CONFIRMING>>        :> MEDIUM)  @@
    (<<LOW, CONTRADICTING>>     :> LOW)     @@
    (<<LOW, NEUTRAL>>           :> LOW)     @@
    (<<MEDIUM, CONFIRMING>>     :> HIGH)    @@
    (<<MEDIUM, CONTRADICTING>>  :> LOW)     @@
    (<<MEDIUM, NEUTRAL>>        :> MEDIUM)  @@
    (<<HIGH, CONFIRMING>>       :> HIGH)    @@
    (<<HIGH, CONTRADICTING>>    :> MEDIUM)  @@
    (<<HIGH, NEUTRAL>>          :> HIGH)

\* CONFIDENCE_TRANSITIONS.get((current, evidence_type), current)
compute_confidence_transition(current, evidence_type) ==
    IF <<current, evidence_type>> \in DOMAIN CONFIDENCE_TRANSITIONS
    THEN CONFIDENCE_TRANSITIONS[<<current, evidence_type>>]
    ELSE current

(* ------------------------ schema/comprehension.py --------------------- *)

\* Field(default=1) of Comprehension.version: the version of a new belief.
DefaultVersion == 1

\* None, for an Optional[str] argument.
None == <<>>

\* The elements of a list.
Elems(s) == {s[i] : i \in 1..Len(s)}

\* list.count(x)
Count(s, x) == Cardinality({i \in 1..Len(s) : s[i] = x})

\* The lists over the ids of S that name no id twice.
RECURSIVE ListsOver(_)
ListsOver(S) ==
    {<<>>} \cup UNION {{<<x>> \o t : t \in ListsOver(S \ {x})} : x \in S}

\* BeliefPosterior(statement, confidence, update_reasoning, observations_used)
BeliefPosterior(statement, confidence, update_reasoning, observations_used) ==
    [statement |-> statement, confidence |-> confidence,
     update_reasoning |-> update_reasoning,
     observations_used |-> observations_used]

\* The lists got from list s by leaving entries out, the rest in s's order.
RECURSIVE SubLists(_)
SubLists(s) ==
    IF s = <<>> THEN {<<>>}
    ELSE LET rest == SubLists(Tail(s))
         IN rest \cup {<<Head(s)>> \o t : t \in rest}

\* Confidence levels of the priors of the beliefs handed to the first update
\* (the update never reads the prior).
PriorConfidences == {UNKNOWN, HIGH}

\* The beliefs a caller may hold before the first update, newly created (at
\* the default version): any posterior confidence, an observations list that
\* names each incorporated id once, and a posterior whose observations_used
\* are entries of that list in its order.
Comprehension ==
    UNION {{[id |-> "comp", prior |-> [confidence |-> pc],
             observations |-> obs,
             posterior |-> BeliefPosterior(<<"s0">>, c, <<"r0">>, used),
             updated |-> 0, version |-> DefaultVersion] :
               pc \in PriorConfidences, c \in ConfidenceLevel,
               used \in SubLists(obs)} :
           obs \in ListsOver(ObsIds)}

(* ----------------------- update/bayesian_update.py -------------------- *)

\* A plausible slip: the idempotency check reads the posterior's list.
already_incorporated_in_posterior(observation, comprehension) ==
    observation \in Elems(comprehension.posterior.observations_used)

\* observation.id in comprehension.observations
already_incorporated(observation, comprehension) ==
    observation \in Elems(comprehension.observations)

\* A plausible slip: the validation is left out.
invalid_update_never(evidence_type, new_statement) ==
    FALSE

\* evidence_type == EvidenceType.CONTRADICTING and new_statement is None
invalid_update(evidence_type, new_statement) ==
    evidence_type = CONTRADICTING /\ new_statement = None

\* A plausible slip: the transition starts from the prior's confidence.
old_confidence_of_prior(comprehension) ==
    comprehension.prior.confidence

\* old_confidence = comprehension.posterior.confidence
old_confidence_of(comprehension) ==
    comprehension.posterior.confidence

\* A plausible slip: the new id is put in front of the list.
appended_in_front(list, observation) ==
    <<observation>> \o list

\* comprehension.posterior.observations_used + [observation.id]
new_observations_used(list, observation) ==
    list \o <<observation>>

\* A plausible slip: the new list holds the new id alone.
appended_alone(list, observation) ==
    <<observation>>

\* comprehension.observations + [observation.id]
new_observations(list, observation) ==
    list \o <<observation>>

\* A plausible slip: the version is copied, not incremented.
new_version_kept(version) ==
    version

\* comprehension.version + 1
new_version(version) ==
    version + 1

\* A plausible slip: the update appends to the argument's own lists and bumps
\* its version in place.
argument_updated_in_place(comprehension, observation) ==
    [comprehension EXCEPT !.observations = @ \o <<observation>>,
                          !.version = @ + 1]

\* The argument object after a call that built the new value: `+` builds a new
\* list and model_copy a new object, so nothing is written to the argument.
argument_after(comprehension, observation) ==
    comprehension

\* comprehension.model_copy(update={...}): a new object with the four fields
\* replaced.
model_copy(comprehension, posterior, observations, updated, version) ==
    [comprehension EXCEPT !.posterior = posterior,
                          !.observations = observations,
                          !.updated = updated,
                          !.version = version]

\* The f-string of the default update_reasoning.
default_reasoning(observation, evidence_type, old_confidence, new_confidence) ==
    <<"Observation", observation, evidence_type,
      "changed confidence from", old_confidence, "to", new_confidence>>

\* What one call does: outcome "noop" (the argument returned), "raised"
\* (ValueError, nothing returned) or "updated" (a new object returned).
\* ret is the returned value, <<>> when the call raised; arg is the argument
\* object after the call; same tells whether ret is the argument object.
bayesian_update(observation, comprehension, evidence_type, new_statement, update_reasoning, now) ==
    IF already_incorporated(observation, comprehension)
    THEN [outcome |-> "noop", ret |-> <<comprehension>>,
          arg |-> comprehension, same |-> TRUE]
    ELSE IF invalid_update(evidence_type, new_statement)
    THEN [outcome |-> "raised", ret |-> <<>>,
          arg |-> comprehension, same |-> FALSE]
    ELSE
      LET old_confidence == old_confidence_of(comprehension)
          new_confidence ==
              compute_confidence_transition(old_confidence, evidence_type)
          final_statement ==
              IF new_statement # None THEN new_statement
              ELSE comprehension.posterior.statement
          reasoning ==
              IF update_reasoning = None
              THEN default_reasoning(observation, evidence_type,
                                     old_confidence, new_confidence)
              ELSE update_reasoning
          new_posterior ==
              BeliefPosterior(
                  final_statement, new_confidence, reasoning,
                  new_observations_used(
                      comprehension.posterior.observations_used, observation))
      IN [outcome |-> "updated",
          ret |-> <<model_copy(
                      comprehension, new_posterior,
                      new_observations(comprehension.observations, observation),
                      now, new_version(comprehension.version))>>,
          arg |-> argument_after(comprehension, observation),
          same |-> FALSE]

(* ------------------------------- state -------------------------------- *)

VARIABLES
    belief,             \* the caller's latest belief
    call,               \* the last bayesian_update call: its arguments and outcome
    _pending,           \* ObservationLifecycle._pending
    _incorporated,      \* ObservationLifecycle._incorporated
    observation_refs,   \* table observation_refs: how many rows each edge has
    observation_pruned, \* table observation_pruned: its rows
    comprehensions,     \* table comprehensions: its rows
    comprehension_vectors, \* table comprehension_vectors: its rows
    vector_id_map,      \* table vector_id_map: its rows
    similarity_edges,   \* table similarity_edges: its rows
    str_hash,           \* hash() of the ids in the running process
    pc,                 \* each caller's operation in progress, with its locals
    last                \* the last call on the tracker, the index or the store

vars == <<belief, call, _pending, _incorporated, observation_refs, observation_pruned, comprehensions, comprehension_vectors, vector_id_map, similarity_edges, str_hash, pc, last>>

updateVars == <<belief, call>>

trackerVars == <<_pending, _incorporated>>

indexVars == <<observation_refs, observation_pruned>>

convergenceVars == <<comprehension_vectors, vector_id_map, similarity_edges>>

processVars == <<str_hash, pc>>

lifecycleVars == <<_pending, _incorporated, last>>

\* No call made yet.
NoCall(b) ==
    [outcome |-> "none", observation |-> 0, evidence_type |-> NEUTRAL,
     new_statement |-> None, before |-> b, arg |-> b, ret |-> <<>>,
     same |-> FALSE]

\* The record of a call: the operation, the observation id and the belief id
\* it was given (0 and "" when it takes none), the belief it was given
\* (arg, None when it takes none), what get_state reported for the id before
\* the call (tracker calls), and what it returned: a value (ret), a row
\* count (rowcount) or a set of ids (result).
Called(op, id, comp, arg, was, ret, rowcount, result) ==
    [op |-> op, id |-> id, comp |-> comp, arg |-> arg, was |-> was,
     ret |-> ret, rowcount |-> rowcount, result |-> result]

NoLifecycleCall == Called("none", 0, "", None, "none", "none", 0, {})

\* The ids of the beliefs a store holds.
CompIds == {"comp-A", "comp-B"}

\* The callers of a store, and a caller with no operation in progress.
Callers == {"c1", "c2"}

Idle == [op |-> "none"]

\* hash() & 0x7FFFFFFF of the ids in a process where the ids in use differ
\* in it.
DistinctHash ==
    ("comp-A" :> 11) @@ ("comp-B" :> 12) @@ ("comp-C" :> 13) @@ ("comp-D" :> 14)

\* The instants the clock shows when a marker is written.
Instants == {"t1", "t2"}

(* --------------------- the caller of bayesian_update ------------------ *)

\* A caller holding one belief; the lifecycle tracker is newly constructed
\* and not used.
UpdateInit ==
    /\ belief \in Comprehension
    /\ call = NoCall(belief)
    /\ _pending = {}
    /\ _incorporated = {}
    /\ last = NoLifecycleCall
    /\ observation_refs = [e \in ObsIds \X CompIds |-> 0]
    /\ observation_pruned = {}
    /\ comprehensions = {}
    /\ comprehension_vectors = {}
    /\ vector_id_map = {}
    /\ similarity_edges = {}
    /\ str_hash = DistinctHash
    /\ pc = [c \in Callers |-> Idle]

\* Texts a caller passes as new_statement.
Statements == {None, <<"s1">>}

\* Texts a caller passes as update_reasoning.
Reasonings == {None, <<"r1">>}

\* One call on the caller's latest belief; the caller keeps what is returned,
\* or the belief it had when the call raised.  datetime.now() is later than
\* the belief's last update.
Update(o, e, s, r) ==
    LET res == bayesian_update(o, belief, e, s, r, belief.updated + 1)
    IN /\ call' = [outcome |-> res.outcome, observation |-> o,
                   evidence_type |-> e, new_statement |-> s,
                   before |-> belief, arg |-> res.arg, ret |-> res.ret,
                   same |-> res.same]
       /\ belief' = IF res.ret = <<>> THEN res.arg ELSE res.ret[1]

BayesianUpdate ==
    /\ \E o \in ObsIds, e \in EvidenceType, s \in Statements, r \in Reasonings :
          Update(o, e, s, r)
    /\ UNCHANGED <<lifecycleVars, indexVars, comprehensions, convergenceVars, processVars>>

UpdateNext == BayesianUpdate

SpecUpdate == UpdateInit /\ [][UpdateNext]_vars

\* A caller who creates a belief with no observations (at the default
\* version, with any confidence) and applies every update to the belief the
\* last one returned.
ChainInit ==
    /\ belief \in {b \in Comprehension : b.observations = <<>>}
    /\ call = NoCall(belief)
    /\ _pending = {}
    /\ _incorporated = {}
    /\ last = NoLifecycleCall
    /\ observation_refs = [e \in ObsIds \X CompIds |-> 0]
    /\ observation_pruned = {}
    /\ comprehensions = {}
    /\ comprehension_vectors = {}
    /\ vector_id_map = {}
    /\ similarity_edges = {}
    /\ str_hash = DistinctHash
    /\ pc = [c \in Callers |-> Idle]

ChainNext == BayesianUpdate

SpecChain == ChainInit /\ [][ChainNext]_vars

(* ------------------------- update/lifecycle.py ------------------------ *)

PENDING == "pending"

INCORPORATED == "incorporated"

\* get_state: the state of an id, or the KeyError of an id not tracked.
get_state(observation_id) ==
    IF observation_id \in _pending THEN PENDING
    ELSE IF observation_id \in _incorporated THEN INCORPORATED
    ELSE "KeyError"

\* get_pending: a copy of the pending set.
get_pending == _pending

\* get_collectible: a copy of the incorporated set.
get_collectible == _incorporated

is_pending(observation_id) == observation_id \in _pending

is_incorporated(observation_id) == observation_id \in _incorporated

\* __len__: len(self._pending) + len(self._incorporated)
__len__ == Cardinality(_pending) + Cardinality(_incorporated)

\* stats: the dict of the two counts and the total.
stats ==
    [pending |-> Cardinality(_pending),
     incorporated |-> Cardinality(_incorporated),
     total |-> __len__]

\* A caller with a newly constructed tracker (ObservationLifecycle.__init__)
\* and one new belief that it never updates.
LifecycleInit ==
    /\ _pending = {}
    /\ _incorporated = {}
    /\ last = NoLifecycleCall
    /\ observation_refs = [e \in ObsIds \X CompIds |-> 0]
    /\ observation_pruned = {}
    /\ comprehensions = {}
    /\ comprehension_vectors = {}
    /\ vector_id_map = {}
    /\ similarity_edges = {}
    /\ str_hash = DistinctHash
    /\ pc = [c \in Callers |-> Idle]
    /\ belief = [id |-> "comp", prior |-> [confidence |-> UNKNOWN],
                 observations |-> <<>>,
                 posterior |-> BeliefPosterior(<<"s0">>, UNKNOWN, <<"r0">>, <<>>),
                 updated |-> 0, version |-> DefaultVersion]
    /\ call = NoCall(belief)

\* register: self._pending.add(observation_id)
register(observation_id) ==
    /\ _pending' = _pending \cup {observation_id}
    /\ UNCHANGED _incorporated
    /\ last' = Called("register", observation_id, "", None, get_state(observation_id), "None", 0, {})

\* mark_incorporated: discard from _pending and add to _incorporated, or only
\* add to _incorporated.
mark_incorporated_no_discard(observation_id) ==
    /\ UNCHANGED _pending
    /\ _incorporated' = _incorporated \cup {observation_id}
    /\ last' = Called("mark_incorporated", observation_id, "", None, get_state(observation_id), "None", 0, {})

mark_incorporated(observation_id) ==
    /\ _pending' = _pending \ {observation_id}
    /\ _incorporated' = _incorporated \cup {observation_id}
    /\ last' = Called("mark_incorporated", observation_id, "", None, get_state(observation_id), "None", 0, {})

\* collect: remove an incorporated id and return True, else return False
collect(observation_id) ==
    IF observation_id \in _incorporated
    THEN /\ _incorporated' = _incorporated \ {observation_id}
         /\ UNCHANGED _pending
         /\ last' = Called("collect", observation_id, "", None, get_state(observation_id), "True", 0, {})
    ELSE /\ UNCHANGED <<_pending, _incorporated>>
         /\ last' = Called("collect", observation_id, "", None, get_state(observation_id), "False", 0, {})

\* What the tracker's calls leave alone.
untracked == <<updateVars, indexVars, comprehensions, convergenceVars, processVars>>

\* The caller's steps: one call of the tracker on some id.
Register == (\E x \in TrackedIds : register(x)) /\ UNCHANGED untracked

MarkIncorporated ==
    (\E x \in TrackedIds : mark_incorporated(x)) /\ UNCHANGED untracked

Collect == (\E x \in TrackedIds : collect(x)) /\ UNCHANGED untracked

LifecycleNext == Register \/ MarkIncorporated \/ Collect

SpecLifecycle == LifecycleInit /\ [][LifecycleNext]_vars

(* ---------------------- store/observation_index.py -------------------- *)

\* Table observation_refs is modelled by the number of rows it holds for each
\* (observation_id, comprehension_id), a list returned by a SELECT by the
\* number of times each id occurs in it (no ORDER BY: the order is not
\* stated), table observation_pruned by its set of rows
\* <<observation_id, pruned_at>>.

\* INSERT OR IGNORE under PRIMARY KEY (observation_id, comprehension_id), or an
\* INSERT into a table without the key.
insert_again(table, row) == [table EXCEPT ![row] = @ + 1]

insert_or_ignore(table, row) ==
    IF table[row] > 0 THEN table ELSE [table EXCEPT ![row] = 1]

\* INSERT OR REPLACE under PRIMARY KEY observation_id.
insert_or_replace(table, row) ==
    {r \in table : r[1] # row[1]} \cup {row}

\* DELETE ... WHERE comprehension_id = ?, or a DELETE of every row.
delete_all(table, comprehension_id) == [e \in DOMAIN table |-> 0]

delete_where(table, comprehension_id) ==
    [e \in DOMAIN table |-> IF e[2] = comprehension_id THEN 0 ELSE table[e]]

RECURSIVE Total(_, _)
\* The number of rows of the table among the given keys.
Total(table, keys) ==
    IF keys = {} THEN 0
    ELSE LET e == CHOOSE k \in keys : TRUE
         IN table[e] + Total(table, keys \ {e})

\* cursor.rowcount of the DELETE: the rows that matched.
rowcount(table, comprehension_id) ==
    Total(table, {e \in DOMAIN table : e[2] = comprehension_id})

\* is_content_available: no row of observation_pruned has the id.
is_content_available(observation_id) ==
    ~ \E r \in observation_pruned : r[1] = observation_id

\* get_referencing_comprehensions: the comprehension_id of each row of the
\* observation.
get_referencing_comprehensions(observation_id) ==
    [c \in CompIds |-> observation_refs[<<observation_id, c>>]]

\* get_references_for_comprehension: the observation_id of each row of the
\* belief.
get_references_for_comprehension(comprehension_id) ==
    [o \in ObsIds |-> observation_refs[<<o, comprehension_id>>]]

\* get_prunable: the tracker's incorporated ids less the ids with a marker,
\* or less every id that has a marker or a reference.
get_prunable_unreferenced ==
    LET incorporated == get_collectible
        pruned == {r[1] : r \in observation_pruned}
        referenced == {e[1] : e \in {k \in DOMAIN observation_refs : observation_refs[k] > 0}}
    IN IF incorporated = {} THEN {} ELSE incorporated \ (pruned \cup referenced)

get_prunable ==
    LET incorporated == get_collectible
        pruned == {r[1] : r \in observation_pruned}
    IN IF incorporated = {} THEN {} ELSE incorporated \ pruned

\* record_reference: one INSERT OR IGNORE.
record_reference(observation_id, comprehension_id) ==
    /\ observation_refs' = insert_or_ignore(observation_refs, <<observation_id, comprehension_id>>)
    /\ UNCHANGED observation_pruned
    /\ last' = Called("record_reference", observation_id, comprehension_id, None, "none", "None", 0, {})

\* mark_content_pruned: one INSERT OR REPLACE with the time of the call, or
\* that and a DELETE of the observation's references.
mark_content_pruned_with_refs(observation_id, now) ==
    /\ observation_pruned' = insert_or_replace(observation_pruned, <<observation_id, now>>)
    /\ observation_refs' = [e \in DOMAIN observation_refs |-> IF e[1] = observation_id THEN 0 ELSE observation_refs[e]]
    /\ last' = Called("mark_content_pruned", observation_id, "", None, "none", "None", 0, {})

mark_content_pruned(observation_id, now) ==
    /\ observation_pruned' = insert_or_replace(observation_pruned, <<observation_id, now>>)
    /\ UNCHANGED observation_refs
    /\ last' = Called("mark_content_pruned", observation_id, "", None, "none", "None", 0, {})

\* remove_references_for_comprehension: one DELETE; returns its rowcount.  Or
\* that and a DELETE of the markers of the observations it referenced.
remove_references_and_markers(comprehension_id) ==
    /\ observation_refs' = delete_where(observation_refs, comprehension_id)
    /\ observation_pruned' = {r \in observation_pruned : observation_refs[<<r[1], comprehension_id>>] = 0}
    /\ last' = Called("remove_references_for_comprehension", 0, comprehension_id, None, "none", "None", rowcount(observation_refs, comprehension_id), {})

remove_references_for_comprehension(comprehension_id) ==
    /\ observation_refs' = delete_where(observation_refs, comprehension_id)
    /\ UNCHANGED observation_pruned
    /\ last' = Called("remove_references_for_comprehension", 0, comprehension_id, None, "none", "None", rowcount(observation_refs, comprehension_id), {})

\* What the index's calls leave alone.
unindexed == <<updateVars, trackerVars, comprehensions, convergenceVars, processVars>>

\* A caller with an index over a new database file: one call of the index
\* on some ids.  The tracker is newly constructed and not used.
IndexInit ==
    /\ observation_refs = [e \in ObsIds \X CompIds |-> 0]
    /\ observation_pruned = {}
    /\ comprehensions = {}
    /\ comprehension_vectors = {}
    /\ vector_id_map = {}
    /\ similarity_edges = {}
    /\ str_hash = DistinctHash
    /\ pc = [c \in Callers |-> Idle]
    /\ _pending = {}
    /\ _incorporated = {}
    /\ last = NoLifecycleCall
    /\ belief = [id |-> "comp", prior |-> [confidence |-> UNKNOWN],
                 observations |-> <<>>,
                 posterior |-> BeliefPosterior(<<"s0">>, UNKNOWN, <<"r0">>, <<>>),
                 updated |-> 0, version |-> DefaultVersion]
    /\ call = NoCall(belief)

RecordReference ==
    /\ \E o \in ObsIds, c \in CompIds : record_reference(o, c)
    /\ UNCHANGED unindexed

MarkContentPruned ==
    /\ \E o \in ObsIds, now \in Instants : mark_content_pruned(o, now)
    /\ UNCHANGED unindexed

RemoveReferences ==
    /\ \E c \in CompIds : remove_references_for_comprehension(c)
    /\ UNCHANGED unindexed

IndexNext == RecordReference \/ MarkContentPruned \/ RemoveReferences

SpecIndex == IndexInit /\ [][IndexNext]_vars

\* A caller with a tracker and an index over a new database file, who tracks
\* observations, records the references of one belief, marks content pruned
\* (the clock standing still) and asks for the prunable ids.
PrunableInit ==
    /\ observation_refs = [e \in ObsIds \X CompIds |-> 0]
    /\ observation_pruned = {}
    /\ comprehensions = {}
    /\ comprehension_vectors = {}
    /\ vector_id_map = {}
    /\ similarity_edges = {}
    /\ str_hash = DistinctHash
    /\ pc = [c \in Callers |-> Idle]
    /\ _pending = {}
    /\ _incorporated = {}
    /\ last = NoLifecycleCall
    /\ belief = [id |-> "comp", prior |-> [confidence |-> UNKNOWN],
                 observations |-> <<>>,
                 posterior |-> BeliefPosterior(<<"s0">>, UNKNOWN, <<"r0">>, <<>>),
                 updated |-> 0, version |-> DefaultVersion]
    /\ call = NoCall(belief)

PrunableRegister == (\E x \in ObsIds : register(x)) /\ UNCHANGED untracked

PrunableMarkIncorporated ==
    (\E x \in ObsIds : mark_incorporated(x)) /\ UNCHANGED untracked

PrunableCollect == (\E x \in ObsIds : collect(x)) /\ UNCHANGED untracked

PrunableRecordReference ==
    /\ \E o \in ObsIds : record_reference(o, "comp-A")
    /\ UNCHANGED unindexed

PrunableMarkContentPruned ==
    /\ \E o \in ObsIds : mark_content_pruned(o, "t1")
    /\ UNCHANGED unindexed

GetPrunable ==
    /\ last' = Called("get_prunable", 0, "", None, "none", "None", 0, get_prunable)
    /\ UNCHANGED <<updateVars, trackerVars, indexVars, comprehensions, convergenceVars, processVars>>

PrunableNext ==
    \/ PrunableRegister
    \/ PrunableMarkIncorporated
    \/ PrunableCollect
    \/ PrunableRecordReference
    \/ PrunableMarkContentPruned
    \/ GetPrunable

SpecPrunable == PrunableInit /\ [][PrunableNext]_vars

(* ---------------- store/repository.py, store/belief_store.py ---------- *)

\* Table comprehensions is modelled by its set of rows <<id, data>>.

\* model_dump_json / model_validate_json: the JSON text of a belief and the
\* belief read back from it.
model_dump_json(comprehension) == <<"json", comprehension>>

model_validate_json(data) == data[2]

\* SQLiteComprehensionRepository.get: the belief of the row with the id
\* (fetchone), or None.
get(id) ==
    LET rows == {r \in comprehensions : r[1] = id}
    IN IF rows = {} THEN None
       ELSE <<model_validate_json((CHOOSE r \in rows : TRUE)[2])>>

\* SQLiteComprehensionRepository.count
count == Cardinality(comprehensions)

\* SQLiteComprehensionRepository.add: INSERT OR REPLACE under PRIMARY KEY
\* id, or an INSERT into a table without the key.
add_another(table, comprehension) ==
    table \cup {<<comprehension.id, model_dump_json(comprehension)>>}

add(table, comprehension) ==
    insert_or_replace(table, <<comprehension.id, model_dump_json(comprehension)>>)

RECURSIVE record_references(_, _, _)
\* The loop of BeliefStore.save: record_reference for each entry of the
\* belief's observations, in order.
record_references(table, observations, comprehension_id) ==
    IF observations = <<>> THEN table
    ELSE record_references(
             insert_or_ignore(table, <<Head(observations), comprehension_id>>),
             Tail(observations), comprehension_id)

\* A plausible slip: save stores the belief and records no reference.
save_without_references(comprehension) ==
    /\ comprehensions' = add(comprehensions, comprehension)
    /\ UNCHANGED <<observation_refs, observation_pruned>>
    /\ last' = Called("save", 0, comprehension.id, <<comprehension>>, "none", "None", 0, {})

\* BeliefStore.save: repository.add, then the references.
save(comprehension) ==
    /\ comprehensions' = add(comprehensions, comprehension)
    /\ observation_refs' = record_references(observation_refs, comprehension.observations, comprehension.id)
    /\ UNCHANGED observation_pruned
    /\ last' = Called("save", 0, comprehension.id, <<comprehension>>, "none", "None", 0, {})

\* SQLiteComprehensionRepository.delete: the table after DELETE ... WHERE
\* id = ?.
delete_row(table, id) == {r \in table : r[1] # id}

\* rowcount > 0 of that DELETE, or True whatever it matched.
deleted_always(table, id) == TRUE

deleted(table, id) == \E r \in table : r[1] = id

\* BeliefStore.delete: remove the references, then repository.delete.
delete(comprehension_id) ==
    /\ observation_refs' = delete_where(observation_refs, comprehension_id)
    /\ comprehensions' = delete_row(comprehensions, comprehension_id)
    /\ UNCHANGED observation_pruned
    /\ last' = Called("delete", 0, comprehension_id, None, "none", IF deleted(comprehensions, comprehension_id) THEN "True" ELSE "False", rowcount(observation_refs, comprehension_id), {})

\* The beliefs a caller saves: either id, any observations list.
StoredBeliefs ==
    {[id |-> c, prior |-> [confidence |-> UNKNOWN], observations |-> obs,
      posterior |-> BeliefPosterior(<<"s0">>, MEDIUM, <<"r0">>, obs),
      updated |-> 0, version |-> DefaultVersion] :
        c \in CompIds, obs \in ListsOver(ObsIds)}

\* A caller with a BeliefStore over a new database file (BeliefStore.__init__),
\* who saves and deletes beliefs and marks observation content pruned on the
\* store's index (get_observation_index), the clock standing still.
StoreInit ==
    /\ observation_refs = [e \in ObsIds \X CompIds |-> 0]
    /\ observation_pruned = {}
    /\ comprehensions = {}
    /\ comprehension_vectors = {}
    /\ vector_id_map = {}
    /\ similarity_edges = {}
    /\ str_hash = DistinctHash
    /\ pc = [c \in Callers |-> Idle]
    /\ _pending = {}
    /\ _incorporated = {}
    /\ last = NoLifecycleCall
    /\ belief = [id |-> "comp", prior |-> [confidence |-> UNKNOWN],
                 observations |-> <<>>,
                 posterior |-> BeliefPosterior(<<"s0">>, UNKNOWN, <<"r0">>, <<>>),
                 updated |-> 0, version |-> DefaultVersion]
    /\ call = NoCall(belief)

Save ==
    /\ \E b \in StoredBeliefs : save(b)
    /\ UNCHANGED <<updateVars, trackerVars, convergenceVars, processVars>>

Delete ==
    /\ \E c \in CompIds : delete(c)
    /\ UNCHANGED <<updateVars, trackerVars, convergenceVars, processVars>>

StoreMarkContentPruned ==
    /\ \E o \in ObsIds : mark_content_pruned(o, "t1")
    /\ UNCHANGED unindexed

StoreNext == Save \/ Delete \/ StoreMarkContentPruned

SpecStore == StoreInit /\ [][StoreNext]_vars

(* ------------- store/belief_store.py, callers in parallel ------------- *)

\* BeliefStore.save and BeliefStore.delete are sequences of calls, each of
\* which opens a connection, runs its statement and commits: another
\* caller's call can come between two of them.  pc holds, for a caller
\* inside save, the belief and the observations still to record, and for a
\* caller inside delete, the id.

\* The beliefs two callers save under one id: any of the observations, in
\* the order of their ids.
RaceBeliefs ==
    {[id |-> "comp-A", prior |-> [confidence |-> UNKNOWN], observations |-> obs,
      posterior |-> BeliefPosterior(<<"s0">>, MEDIUM, <<"r0">>, obs),
      updated |-> 0, version |-> DefaultVersion] :
        obs \in SubLists([i \in 1..NumObs |-> i])}

\* What the steps of save and delete leave alone.
unraced == <<updateVars, trackerVars, observation_pruned, convergenceVars, str_hash>>

\* save, first call: self._repository.add(comprehension)
SaveAdd ==
    /\ \E c \in Callers, b \in RaceBeliefs :
          /\ pc[c] = Idle
          /\ comprehensions' = add(comprehensions, b)
          /\ pc' = [pc EXCEPT ![c] = [op |-> "save", comprehension |-> b, observations |-> b.observations]]
          /\ last' = Called("add", 0, b.id, None, "none", "None", 0, {})
    /\ UNCHANGED <<unraced, observation_refs>>

\* save, the loop: record_reference(obs_id, comprehension.id) for the next
\* observation.
SaveRecordReference ==
    /\ \E c \in Callers :
          /\ pc[c].op = "save"
          /\ pc[c].observations # <<>>
          /\ observation_refs' = insert_or_ignore(observation_refs, <<Head(pc[c].observations), pc[c].comprehension.id>>)
          /\ pc' = [pc EXCEPT ![c].observations = Tail(@)]
          /\ last' = Called("record_reference", 0, pc[c].comprehension.id, None, "none", "None", 0, {})
    /\ UNCHANGED <<unraced, comprehensions>>

\* save returns when the loop is over.
SaveReturn ==
    /\ \E c \in Callers :
          /\ pc[c].op = "save"
          /\ pc[c].observations = <<>>
          /\ pc' = [pc EXCEPT ![c] = Idle]
          /\ last' = Called("save", 0, pc[c].comprehension.id, None, "none", "None", 0, {})
    /\ UNCHANGED <<unraced, comprehensions, observation_refs>>

\* delete, first call: remove_references_for_comprehension(comprehension_id)
DeleteRemoveReferences ==
    /\ \E c \in Callers :
          /\ pc[c] = Idle
          /\ observation_refs' = delete_where(observation_refs, "comp-A")
          /\ pc' = [pc EXCEPT ![c] = [op |-> "delete", comprehension_id |-> "comp-A"]]
          /\ last' = Called("remove_references_for_comprehension", 0, "comp-A", None, "none", "None", 0, {})
    /\ UNCHANGED <<unraced, comprehensions>>

\* delete, second call: return self._repository.delete(comprehension_id)
DeleteRow ==
    /\ \E c \in Callers :
          /\ pc[c].op = "delete"
          /\ comprehensions' = delete_row(comprehensions, pc[c].comprehension_id)
          /\ pc' = [pc EXCEPT ![c] = Idle]
          /\ last' = Called("delete", 0, pc[c].comprehension_id, None, "none", IF deleted(comprehensions, pc[c].comprehension_id) THEN "True" ELSE "False", 0, {})
    /\ UNCHANGED <<unraced, observation_refs>>

RaceNext ==
    SaveAdd \/ SaveRecordReference \/ SaveReturn \/ DeleteRemoveReferences \/ DeleteRow

\* Two callers of one BeliefStore over a new database file.
SpecRace == StoreInit /\ [][RaceNext]_vars

\* Two callers who each read the stored belief, update what they hold with
\* bayesian_update and save what they hold; pc holds a caller's belief.

\* The belief the callers work on: new, with no observations.
NewBelief ==
    [id |-> "comp-A", prior |-> [confidence |-> UNKNOWN], observations |-> <<>>,
     posterior |-> BeliefPosterior(<<"s0">>, UNKNOWN, <<"r0">>, <<>>),
     updated |-> 0, version |-> DefaultVersion]

\* A BeliefStore in which the new belief has been saved.
CyclesInit ==
    /\ observation_refs = [e \in ObsIds \X CompIds |-> 0]
    /\ observation_pruned = {}
    /\ comprehensions = add({}, NewBelief)
    /\ comprehension_vectors = {}
    /\ vector_id_map = {}
    /\ similarity_edges = {}
    /\ str_hash = DistinctHash
    /\ pc = [c \in Callers |-> Idle]
    /\ _pending = {}
    /\ _incorporated = {}
    /\ last = Called("save", 0, NewBelief.id, <<NewBelief>>, "none", "None", 0, {})
    /\ belief = [id |-> "comp", prior |-> [confidence |-> UNKNOWN],
                 observations |-> <<>>,
                 posterior |-> BeliefPosterior(<<"s0">>, UNKNOWN, <<"r0">>, <<>>),
                 updated |-> 0, version |-> DefaultVersion]
    /\ call = NoCall(belief)

\* What the callers' steps leave alone.
uncycled == <<updateVars, trackerVars, convergenceVars, str_hash>>

\* store.get(id): the caller holds the stored belief.
CycleGet ==
    /\ \E c \in Callers :
          /\ pc[c] = Idle
          /\ get("comp-A") # None
          /\ pc' = [pc EXCEPT ![c] = [op |-> "holds", comprehension |-> get("comp-A")[1]]]
          /\ last' = Called("get", 0, "comp-A", None, "none", "None", 0, {})
    /\ UNCHANGED <<uncycled, comprehensions, indexVars>>

\* bayesian_update on the belief the caller holds: the caller holds what is
\* returned.
CycleUpdate ==
    /\ \E c \in Callers, o \in ObsIds, e \in {CONFIRMING, NEUTRAL} :
          /\ pc[c].op = "holds"
          /\ LET res == bayesian_update(o, pc[c].comprehension, e, None, None, pc[c].comprehension.updated + 1)
             IN pc' = [pc EXCEPT ![c].comprehension = res.ret[1]]
          /\ last' = Called("bayesian_update", 0, "comp-A", None, "none", "None", 0, {})
    /\ UNCHANGED <<uncycled, comprehensions, indexVars>>

\* store.save of the belief the caller holds.
CycleSave ==
    /\ \E c \in Callers :
          /\ pc[c].op = "holds"
          /\ save(pc[c].comprehension)
          /\ pc' = [pc EXCEPT ![c] = Idle]
    /\ UNCHANGED uncycled

CyclesNext == CycleGet \/ CycleUpdate \/ CycleSave

SpecCycles == CyclesInit /\ [][CyclesNext]_vars

(* -------- convergence/embedder.py, convergence/vector_store.py -------- *)

\* The ids of the beliefs a similarity index holds.
BeliefIds == CompIds \cup {"comp-C", "comp-D"}

Domains == {"api", "database"}

\* An embedding is modelled by a point on a line and the distance of two
\* embeddings by the distance of the points, counted in halves: Unit is 1.0.
Unit == 2

\* SentenceTransformer.encode: the point of a text, read off its last token.
encode(text) ==
    LET t == text[Len(text)]
    IN IF t = "s0" THEN 0 ELSE IF t = "s1" THEN 1 ELSE IF t = "s2" THEN 2 ELSE 4

\* embed: the encoding of the prior and the posterior statement.
embed(comprehension) ==
    encode(comprehension.prior.statement \o <<" ">> \o comprehension.posterior.statement)

\* The distance sqlite-vec reports for two embeddings.
distance_of(u, v) == IF u < v THEN v - u ELSE u - v

\* _get_rowid: hash(comprehension_id) & 0x7FFFFFFF, with the hash of the
\* running process.
_get_rowid(comprehension_id) == str_hash[comprehension_id]

\* VectorStore.add: the vector row of the rowid is replaced, and the map row
\* by INSERT OR REPLACE (rowid is the key, comprehension_id is UNIQUE).
VectorStore_add(comprehension_id, embedding) ==
    LET rowid == _get_rowid(comprehension_id)
    IN /\ comprehension_vectors' =
             {r \in comprehension_vectors : r[1] # rowid} \cup {<<rowid, embedding>>}
       /\ vector_id_map' =
             {r \in vector_id_map : r[1] # rowid /\ r[2] # comprehension_id}
                 \cup {<<rowid, comprehension_id>>}

\* VectorStore.remove: whether a map row of the rowid exists; if so both
\* rows are deleted.
VectorStore_remove(comprehension_id) ==
    LET rowid == _get_rowid(comprehension_id)
        exists == \E r \in vector_id_map : r[1] = rowid
    IN /\ comprehension_vectors' =
             IF exists THEN {r \in comprehension_vectors : r[1] # rowid}
             ELSE comprehension_vectors
       /\ vector_id_map' =
             IF exists THEN {r \in vector_id_map : r[1] # rowid}
             ELSE vector_id_map

RECURSIVE Nearest(_, _, _)
\* SELECT rowid, distance ... WHERE embedding MATCH ? AND k = ? ORDER BY
\* distance: the lists of at most k rows, nearest first, that sqlite-vec may
\* return (rows at one distance come in any order).
Nearest(rows, embedding, k) ==
    IF k <= 0 \/ rows = {} THEN {<<>>}
    ELSE LET nearest == {r \in rows : \A q \in rows :
                            distance_of(r[2], embedding) <= distance_of(q[2], embedding)}
         IN UNION {{<<<<r[1], distance_of(r[2], embedding)>>>> \o t :
                       t \in Nearest(rows \ {r}, embedding, k - 1)} : r \in nearest}

RECURSIVE with_ids(_)
\* The loop of query_knn: each (rowid, distance) with a map row becomes
\* (comprehension_id, distance), the others are left out.
with_ids(found) ==
    IF found = <<>> THEN <<>>
    ELSE LET rows == {r \in vector_id_map : r[1] = Head(found)[1]}
         IN (IF rows = {} THEN <<>>
             ELSE <<<<(CHOOSE r \in rows : TRUE)[2], Head(found)[2]>>>>)
            \o with_ids(Tail(found))

\* query_knn: the lists it may return.
query_knn(embedding, limit) ==
    {with_ids(found) : found \in Nearest(comprehension_vectors, embedding, limit)}

\* What remove returns: whether the SELECT on vector_id_map found a row of
\* the rowid.
VectorStore_removed(comprehension_id) ==
    \E r \in vector_id_map : r[1] = _get_rowid(comprehension_id)

\* count: SELECT COUNT(*) FROM vector_id_map
VectorStore_count == Cardinality(vector_id_map)

\* The embeddings a caller adds.
Embeddings == {0, 1}

\* The rowids hash() & 0x7FFFFFFF gives the ids of CompIds in a process:
\* any, the same or different for two ids, fixed while the process runs.
Rowids == {11, 12}

Hashes == [CompIds -> Rowids]

\* What the vector store's calls leave alone.
unstored == <<updateVars, trackerVars, indexVars, comprehensions, similarity_edges, pc>>

\* A caller with a VectorStore over a new database file
\* (VectorStore.__init__), in a process with some hash.
VectorsInit ==
    /\ observation_refs = [e \in ObsIds \X CompIds |-> 0]
    /\ observation_pruned = {}
    /\ comprehensions = {}
    /\ comprehension_vectors = {}
    /\ vector_id_map = {}
    /\ similarity_edges = {}
    /\ str_hash \in Hashes
    /\ pc = [c \in Callers |-> Idle]
    /\ _pending = {}
    /\ _incorporated = {}
    /\ last = NoLifecycleCall
    /\ belief = [id |-> "comp", prior |-> [confidence |-> UNKNOWN],
                 observations |-> <<>>,
                 posterior |-> BeliefPosterior(<<"s0">>, UNKNOWN, <<"r0">>, <<>>),
                 updated |-> 0, version |-> DefaultVersion]
    /\ call = NoCall(belief)

\* VectorStore.add(id, embedding)
VectorAdd ==
    /\ \E c \in CompIds, e \in Embeddings :
          /\ VectorStore_add(c, e)
          /\ last' = Called("vector_add", 0, c, <<e>>, "none", "None", 0, {})
    /\ UNCHANGED <<unstored, str_hash>>

\* VectorStore.remove(id)
VectorRemove ==
    /\ \E c \in CompIds :
          /\ VectorStore_remove(c)
          /\ last' = Called("vector_remove", 0, c, None, "none", IF VectorStore_removed(c) THEN "True" ELSE "False", 0, {})
    /\ UNCHANGED <<unstored, str_hash>>

\* The process ends and a store instance is opened on the database file in
\* a new process, where hash() has another seed.
NewProcess ==
    /\ str_hash' \in Hashes
    /\ last' = Called("VectorStore", 0, "", None, "none", "None", 0, {})
    /\ UNCHANGED <<unstored, comprehension_vectors, vector_id_map>>

VectorsNext == VectorAdd \/ VectorRemove \/ NewProcess

SpecVectors == VectorsInit /\ [][VectorsNext]_vars

(* ---------------------- convergence/similarity.py --------------------- *)

\* The factor of the over-fetch: limit * 3 candidates are asked for.
OverFetch == 3

\* The largest limit a caller passes.
MaxLimit == 2

\* SimilarityMatch(comprehension_id, domain, similarity)
SimilarityMatch(comprehension_id, domain, similarity) ==
    [comprehension_id |-> comprehension_id, domain |-> domain,
     similarity |-> similarity]

\* comp_id == comprehension.id: the candidate is the query itself.
is_self(comp_id, comprehension) == comp_id = comprehension.id

\* other.domain == comprehension.domain, or a test that never holds.
same_domain_never(other, comprehension) == FALSE

same_domain(other, comprehension) == other.domain = comprehension.domain

\* similarity = 1.0 - distance
similarity_of(distance) == Unit - distance

\* similarity < min_similarity, or a test that never holds.
below_threshold_never(similarity, min_similarity) == FALSE

below_threshold(similarity, min_similarity) == similarity < min_similarity

\* matches.append(...), or an insert in front.
prepended(matches, match) == <<match>> \o matches

appended(matches, match) == Append(matches, match)

\* len(matches) >= limit, or a test that never holds.
enough_never(matches, limit) == FALSE

enough(matches, limit) == Len(matches) >= limit

RECURSIVE filter_candidates(_, _, _, _, _)
\* The loop of reminds_me_of over the candidates left, with the matches
\* collected so far.
filter_candidates(candidates, matches, comprehension, limit, min_similarity) ==
    IF candidates = <<>> THEN matches
    ELSE LET comp_id == Head(candidates)[1]
             distance == Head(candidates)[2]
             other == get(comp_id)
             next == filter_candidates(Tail(candidates), matches, comprehension, limit, min_similarity)
         IN IF is_self(comp_id, comprehension) THEN next
            ELSE IF other = None THEN next
            ELSE IF same_domain(other[1], comprehension) THEN next
            ELSE IF below_threshold(similarity_of(distance), min_similarity) THEN next
            ELSE LET more == appended(matches, SimilarityMatch(comp_id, other[1].domain, similarity_of(distance)))
                 IN IF enough(more, limit) THEN more
                    ELSE filter_candidates(Tail(candidates), more, comprehension, limit, min_similarity)

\* reminds_me_of, given the candidates query_knn returned: what it returns.
reminds_me_of(comprehension, limit, min_similarity, candidates) ==
    [outcome |-> "returned",
     matches |-> filter_candidates(candidates, <<>>, comprehension, limit, min_similarity)]

\* find_similar_to_id, given the candidates: the empty list for an id that
\* is not stored, or a call of reminds_me_of on None, which raises in embed.
find_similar_to_id_unchecked(comprehension_id, limit, min_similarity, candidates) ==
    IF get(comprehension_id) = None
    THEN [outcome |-> "raised", matches |-> <<>>]
    ELSE reminds_me_of(get(comprehension_id)[1], limit, min_similarity, candidates)

find_similar_to_id(comprehension_id, limit, min_similarity, candidates) ==
    IF get(comprehension_id) = None
    THEN [outcome |-> "returned", matches |-> <<>>]
    ELSE reminds_me_of(get(comprehension_id)[1], limit, min_similarity, candidates)

\* The statements of the belief of each id.
StatementOf(id) ==
    IF id = "comp-A" THEN <<"s1">>
    ELSE IF id = "comp-B" THEN <<"s0">>
    ELSE IF id = "comp-C" THEN <<"s2">>
    ELSE <<"s4">>

\* The domain of the belief of each id.
DomainOf(id) == IF id \in CompIds THEN "api" ELSE "database"

\* The beliefs a caller stores, indexes and asks about: two in each domain.
DomainBeliefs ==
    {[id |-> c, domain |-> DomainOf(c), prior |-> [statement |-> <<"p">>],
      posterior |-> [statement |-> StatementOf(c)]] : c \in BeliefIds}

\* The thresholds a caller passes as min_similarity (in halves).
MinSimilarities == {-1, 1}

\* The arguments and the candidates of a query.
Query(comprehension, limit, min_similarity, candidates) ==
    [comprehension |-> comprehension, limit |-> limit,
     min_similarity |-> min_similarity, candidates |-> candidates]

\* What the similarity finder's calls leave alone.
unsearched == <<updateVars, trackerVars, indexVars, similarity_edges, processVars>>

\* A caller with a repository and a SimilarityFinder over a new database
\* file (SimilarityFinder.__init__).  Of a call that is no query only the
\* operation is recorded.
SimilarInit ==
    /\ observation_refs = [e \in ObsIds \X CompIds |-> 0]
    /\ observation_pruned = {}
    /\ comprehensions = {}
    /\ comprehension_vectors = {}
    /\ vector_id_map = {}
    /\ similarity_edges = {}
    /\ str_hash = DistinctHash
    /\ pc = [c \in Callers |-> Idle]
    /\ _pending = {}
    /\ _incorporated = {}
    /\ last = NoLifecycleCall
    /\ belief = [id |-> "comp", prior |-> [confidence |-> UNKNOWN],
                 observations |-> <<>>,
                 posterior |-> BeliefPosterior(<<"s0">>, UNKNOWN, <<"r0">>, <<>>),
                 updated |-> 0, version |-> DefaultVersion]
    /\ call = NoCall(belief)

\* repository.add(b)
RepositoryAdd ==
    /\ \E b \in DomainBeliefs :
          /\ comprehensions' = add(comprehensions, b)
          /\ last' = Called("add", 0, "", None, "none", "None", 0, {})
    /\ UNCHANGED <<unsearched, comprehension_vectors, vector_id_map>>

\* repository.delete(id)
RepositoryDelete ==
    /\ \E c \in BeliefIds :
          /\ comprehensions' = delete_row(comprehensions, c)
          /\ last' = Called("repository.delete", 0, "", None, "none", "None", 0, {})
    /\ UNCHANGED <<unsearched, comprehension_vectors, vector_id_map>>

\* SimilarityFinder.index(b)
Index ==
    /\ \E b \in DomainBeliefs :
          /\ VectorStore_add(b.id, embed(b))
          /\ last' = Called("index", 0, "", None, "none", "None", 0, {})
    /\ UNCHANGED <<unsearched, comprehensions>>

\* SimilarityFinder.remove_index(id)
RemoveIndex ==
    /\ \E c \in BeliefIds :
          /\ VectorStore_remove(c)
          /\ last' = Called("remove_index", 0, "", None, "none", "None", 0, {})
    /\ UNCHANGED <<unsearched, comprehensions>>

\* SimilarityFinder.reminds_me_of(q, limit, min_similarity)
RemindsMeOf ==
    /\ \E q \in DomainBeliefs, limit \in 0..MaxLimit, m \in MinSimilarities :
          \E candidates \in query_knn(embed(q), limit * OverFetch) :
             LET r == reminds_me_of(q, limit, m, candidates)
             IN last' = Called("reminds_me_of", 0, q.id, <<Query(q, limit, m, candidates)>>, "none", r.outcome, 0, r.matches)
    /\ UNCHANGED <<unsearched, comprehensions, comprehension_vectors, vector_id_map>>

\* SimilarityFinder.find_similar_to_id(id, limit, min_similarity)
FindSimilarToId ==
    /\ \E c \in BeliefIds, limit \in 0..MaxLimit, m \in MinSimilarities :
          \E candidates \in (IF get(c) = None THEN {<<>>} ELSE query_knn(embed(get(c)[1]), limit * OverFetch)) :
             LET r == find_similar_to_id(c, limit, m, candidates)
             IN last' = Called("find_similar_to_id", 0, c, <<Query(get(c), limit, m, candidates)>>, "none", r.outcome, 0, r.matches)
    /\ UNCHANGED <<unsearched, comprehensions, comprehension_vectors, vector_id_map>>

SimilarNext ==
    \/ RepositoryAdd
    \/ RepositoryDelete
    \/ Index
    \/ RemoveIndex
    \/ RemindsMeOf
    \/ FindSimilarToId

SpecSimilar == SimilarInit /\ [][SimilarNext]_vars

(* ---------------------- convergence/accumulator.py -------------------- *)

\* Table similarity_edges is modelled by its set of rows; a similarity is
\* counted in halves, as in the similarity finder.

\* The most rows the edge table gets.
MaxEdges == 3

\* A row of similarity_edges.
Edge(source_id, target_id, similarity, source_domain, target_domain, created) ==
    [source_id |-> source_id, target_id |-> target_id,
     similarity |-> similarity, source_domain |-> source_domain,
     target_domain |-> target_domain, created |-> created]

\* INSERT OR REPLACE under PRIMARY KEY (source_id, target_id), or an INSERT
\* into a table without the key.
insert_edge(table, row) == table \cup {row}

upsert_edge(table, row) ==
    {r \in table : ~(r.source_id = row.source_id /\ r.target_id = row.target_id)}
        \cup {row}

\* record_similarity: one INSERT OR REPLACE with the time of the call (the
\* call's record keeps whether the pair had no row, the same row or
\* another row).
record_similarity(source_id, target_id, similarity, source_domain, target_domain, now) ==
    /\ similarity_edges' = upsert_edge(similarity_edges, Edge(source_id, target_id, similarity, source_domain, target_domain, now))
    /\ last' = Called("record_similarity", 0, "", <<Edge(source_id, target_id, similarity, source_domain, target_domain, now)>>,
                      IF \A r \in similarity_edges : r.source_id # source_id \/ r.target_id # target_id THEN "none"
                      ELSE IF Edge(source_id, target_id, similarity, source_domain, target_domain, now) \in similarity_edges THEN "same"
                      ELSE "other",
                      "None", 0, {})

RECURSIVE fetchall(_)
\* cursor.fetchall(): the selected rows as a list (in an order SQLite
\* chooses).
fetchall(rows) ==
    IF rows = {} THEN <<>>
    ELSE LET r == CHOOSE x \in rows : TRUE
         IN <<r>> \o fetchall(rows \ {r})

RECURSIVE outgoing_tuples(_)
\* (target_id, target_domain, similarity) of each row of a list.
outgoing_tuples(rows) ==
    IF rows = <<>> THEN <<>>
    ELSE <<<<Head(rows).target_id, Head(rows).target_domain, Head(rows).similarity>>>>
         \o outgoing_tuples(Tail(rows))

RECURSIVE incoming_tuples(_)
\* (source_id, source_domain, similarity) of each row of a list.
incoming_tuples(rows) ==
    IF rows = <<>> THEN <<>>
    ELSE <<<<Head(rows).source_id, Head(rows).source_domain, Head(rows).similarity>>>>
         \o incoming_tuples(Tail(rows))

\* get_connections: the tuples of the rows with the id as source, then the
\* tuples of the rows with the id as target.
get_connections(comprehension_id) ==
    outgoing_tuples(fetchall({r \in similarity_edges : r.source_id = comprehension_id}))
    \o incoming_tuples(fetchall({r \in similarity_edges : r.target_id = comprehension_id}))

RECURSIVE SumOfSimilarity(_)
SumOfSimilarity(rows) ==
    IF rows = {} THEN 0
    ELSE LET r == CHOOSE x \in rows : TRUE
         IN r.similarity + SumOfSimilarity(rows \ {r})

\* COUNT(DISTINCT source_domain) of a group, or COUNT(source_domain).
count_source_domain(rows) == Cardinality(rows)

count_distinct_source_domain(rows) == Cardinality({r.source_domain : r \in rows})

\* AVG(similarity) of a group, as the fraction sum / count.
avg(rows) == [sum |-> SumOfSimilarity(rows), count |-> Cardinality(rows)]

\* Whether fraction a is greater than, or equal to, fraction b.
greater(a, b) == a.sum * b.count > b.sum * a.count

equal(a, b) == a.sum * b.count = b.sum * a.count

\* AccumulationHotspot(comprehension_id, domain_count, connection_count,
\* avg_similarity) of the group of a target.
AccumulationHotspot(table, target_id) ==
    LET rows == {r \in table : r.target_id = target_id}
    IN [comprehension_id |-> target_id,
        domain_count |-> count_distinct_source_domain(rows),
        connection_count |-> Cardinality(rows),
        avg_similarity |-> avg(rows)]

\* GROUP BY target_id HAVING COUNT(DISTINCT source_domain) >= ? AND
\* COUNT(*) >= ?
having(table, min_domains, min_connections) ==
    {h \in {AccumulationHotspot(table, t) : t \in {r.target_id : r \in table}} :
        h.domain_count >= min_domains /\ h.connection_count >= min_connections}

\* ORDER BY domain_count DESC, avg_similarity DESC: whether g may come
\* before h.  Or ORDER BY avg_similarity DESC, domain_count DESC.
precedes_by_similarity(g, h) ==
    \/ greater(g.avg_similarity, h.avg_similarity)
    \/ equal(g.avg_similarity, h.avg_similarity) /\ g.domain_count >= h.domain_count

precedes(g, h) ==
    \/ g.domain_count > h.domain_count
    \/ g.domain_count = h.domain_count
       /\ (greater(g.avg_similarity, h.avg_similarity) \/ equal(g.avg_similarity, h.avg_similarity))

RECURSIVE order_by(_)
\* The lists SQLite may return for the ordered rows (rows with equal keys
\* come in any order).
order_by(hotspots) ==
    IF hotspots = {} THEN {<<>>}
    ELSE UNION {{<<h>> \o t : t \in order_by(hotspots \ {h})} :
                   h \in {g \in hotspots : \A f \in hotspots : precedes(g, f)}}

\* get_hotspots: the lists it may return.
get_hotspots(min_domains, min_connections) ==
    order_by(having(similarity_edges, min_domains, min_connections))

\* DELETE FROM similarity_edges WHERE source_id = ? OR target_id = ?: the
\* rows that match.  Or WHERE source_id = ?.
matching_source(table, comprehension_id) ==
    {r \in table : r.source_id = comprehension_id}

matching(table, comprehension_id) ==
    {r \in table : r.source_id = comprehension_id \/ r.target_id = comprehension_id}

\* remove_edges: one DELETE; returns its rowcount.
remove_edges(comprehension_id) ==
    /\ similarity_edges' = similarity_edges \ matching(similarity_edges, comprehension_id)
    /\ last' = Called("remove_edges", 0, comprehension_id, None, "none", "None", Cardinality(matching(similarity_edges, comprehension_id)), {})

\* The similarities a caller records (in halves).
Similarities == {1, 2}

\* The beliefs edges start from and the beliefs they point to.
SourceIds == CompIds \cup {"comp-C"}

TargetIds == CompIds

\* What the accumulation tracker's calls leave alone.
untallied == <<updateVars, trackerVars, indexVars, comprehensions, comprehension_vectors, vector_id_map, processVars>>

\* A caller with an AccumulationTracker over a new database file
\* (AccumulationTracker.__init__), who records edges from its beliefs to the
\* beliefs of one domain, the clock standing still, up to MaxEdges of them.
EdgesInit ==
    /\ observation_refs = [e \in ObsIds \X CompIds |-> 0]
    /\ observation_pruned = {}
    /\ comprehensions = {}
    /\ comprehension_vectors = {}
    /\ vector_id_map = {}
    /\ similarity_edges = {}
    /\ str_hash = DistinctHash
    /\ pc = [c \in Callers |-> Idle]
    /\ _pending = {}
    /\ _incorporated = {}
    /\ last = NoLifecycleCall
    /\ belief = [id |-> "comp", prior |-> [confidence |-> UNKNOWN],
                 observations |-> <<>>,
                 posterior |-> BeliefPosterior(<<"s0">>, UNKNOWN, <<"r0">>, <<>>),
                 updated |-> 0, version |-> DefaultVersion]
    /\ call = NoCall(belief)

\* Whether the table has room for an edge from s to t.
HasRoom(s, t) ==
    \/ Cardinality(similarity_edges) < MaxEdges
    \/ \E r \in similarity_edges : r.source_id = s /\ r.target_id = t

RecordSimilarity ==
    /\ \E s \in SourceIds, t \in TargetIds, x \in Similarities, d \in Domains :
          /\ HasRoom(s, t)
          /\ record_similarity(s, t, x, d, DomainOf(t), "t1")
    /\ UNCHANGED untallied

RemoveEdges ==
    /\ \E c \in SourceIds : remove_edges(c)
    /\ UNCHANGED untallied

GetConnections ==
    /\ \E c \in SourceIds :
          last' = Called("get_connections", 0, c, None, "none", "None", 0, get_connections(c))
    /\ UNCHANGED <<untallied, similarity_edges>>

GetHotspots ==
    /\ \E min_domains \in 1..2, min_connections \in 1..2 :
          \E hotspots \in get_hotspots(min_domains, min_connections) :
             last' = Called("get_hotspots", 0, "", <<[min_domains |-> min_domains, min_connections |-> min_connections]>>, "none", "None", 0, hotspots)
    /\ UNCHANGED <<untallied, similarity_edges>>

\* The caller who records and removes edges.
EdgesNext == RecordSimilarity \/ RemoveEdges

SpecEdges == EdgesInit /\ [][EdgesNext]_vars

\* The caller who records edges and asks for connections and hotspots.
HotspotsNext == RecordSimilarity \/ GetConnections \/ GetHotspots

SpecHotspots == EdgesInit /\ [][HotspotsNext]_vars

\* get_connections runs its two SELECTs on one connection outside any
\* transaction (sqlite3 opens one only before a statement that writes), so
\* the commit of another caller's record_similarity or remove_edges can
\* come between them.  pc holds, for a caller inside get_connections, the
\* id, the results of the first SELECT and (to tell what the call could
\* have returned if it were atomic) the states the table has had since the
\* call began.

\* What the steps of the accumulation tracker's callers leave alone.
untorn == <<updateVars, trackerVars, indexVars, comprehensions, comprehension_vectors, vector_id_map, str_hash>>

\* The callers inside get_connections see one more state of the table.
seen(table) ==
    [c \in Callers |->
        IF pc[c].op = "get_connections"
        THEN [pc[c] EXCEPT !.tables = @ \cup {table}]
        ELSE pc[c]]

\* get_connections, first SELECT: the outgoing edges.
ConnectionsOutgoing ==
    /\ \E c \in Callers, id \in CompIds :
          /\ \A d \in Callers : pc[d] = Idle
          /\ pc' = [pc EXCEPT ![c] =
                       [op |-> "get_connections", comprehension_id |-> id,
                        results |-> outgoing_tuples(fetchall({r \in similarity_edges : r.source_id = id})),
                        tables |-> {similarity_edges}]]
          /\ last' = Called("SELECT", 0, id, None, "none", "None", 0, {})
    /\ UNCHANGED <<untorn, similarity_edges>>

\* get_connections, second SELECT: the incoming edges are appended and the
\* list is returned.
ConnectionsIncoming ==
    /\ \E c \in Callers :
          /\ pc[c].op = "get_connections"
          /\ last' = Called("get_connections", 0, pc[c].comprehension_id, <<pc[c].tables>>, "none", "None", 0,
                            pc[c].results \o incoming_tuples(fetchall({r \in similarity_edges : r.target_id = pc[c].comprehension_id})))
          /\ pc' = [pc EXCEPT ![c] = Idle]
    /\ UNCHANGED <<untorn, similarity_edges>>

\* record_similarity by some caller, between one stored belief and another
\* that are as similar as can be.
TornRecordSimilarity ==
    /\ \E s \in CompIds, t \in CompIds :
          /\ s # t
          /\ record_similarity(s, t, Unit, DomainOf(s), DomainOf(t), "t1")
    /\ pc' = seen(similarity_edges')
    /\ UNCHANGED untorn

\* remove_edges by some caller.
TornRemoveEdges ==
    /\ \E c \in CompIds : remove_edges(c)
    /\ pc' = seen(similarity_edges')
    /\ UNCHANGED untorn

TornNext ==
    ConnectionsOutgoing \/ ConnectionsIncoming \/ TornRecordSimilarity \/ TornRemoveEdges

\* Callers of one AccumulationTracker over a new database file, one of them
\* at a time inside get_connections.
SpecTorn == EdgesInit /\ [][TornNext]_vars

\* A caller with a BeliefStore and an AccumulationTracker, who saves and
\* deletes beliefs through the store and records the similarity of one
\* stored belief to another, the clock standing still.
StoreRecordSimilarity ==
    /\ \E s \in CompIds, t \in CompIds, x \in Similarities :
          /\ s # t
          /\ get(s) # None
          /\ get(t) # None
          /\ record_similarity(s, t, x, DomainOf(s), DomainOf(t), "t1")
    /\ UNCHANGED untallied

StoreEdgesNext == Save \/ Delete \/ StoreRecordSimilarity

SpecStoreEdges == StoreInit /\ [][StoreEdgesNext]_vars

(* ====================================================================== *)
(* Properties of bayesian_update and the transition rules (SpecUpdate)      *)
(* ====================================================================== *)

\* A call has been made.
Made == call.outcome # "none"

\* The value the last call returned (when it returned one).
Ret == call.ret[1]

\* The last call got an observation its belief already lists.
Repeated == call.observation \in Elems(call.before.observations)

\* The last call got contradicting evidence and no new statement.
Unstated == call.evidence_type = CONTRADICTING /\ call.new_statement = None

\* Whether list s is an initial part of list t.
IsPrefix(s, t) == Len(s) <= Len(t) /\ SubSeq(t, 1, Len(s)) = s

\* C1: a call whose observation id is already in the belief's observations
\* returns that belief itself, whatever the evidence type and the other
\* arguments: the same object with the same version, lists and posterior, and
\* the argument as it was.  So after an update, every further call with the
\* same observation returns the updated belief unchanged.
C1_IdempotentNoOp ==
    /\ (Made /\ Repeated) =>
          /\ call.outcome = "noop"
          /\ call.ret = <<call.before>>
          /\ call.same
          /\ belief = call.before
    /\ call.outcome = "updated" =>
          \A e \in EvidenceType, s \in Statements, r \in Reasonings :
              bayesian_update(call.observation, Ret, e, s, r,
                              Ret.updated + 1).ret = <<Ret>>

\* C1 witness: an observation applied a second time, as contradicting evidence
\* without a new statement, to a belief that an earlier call had updated.
C1_SecondApplication ==
    /\ call.outcome = "noop"
    /\ Unstated
    /\ call.before.version > DefaultVersion
    /\ Count(Ret.observations, call.observation) = 1

\* C2 as stated: contradicting evidence without a new statement always fails
\* and returns no belief.
C2_AlwaysRaises ==
    (Made /\ Unstated) => (call.outcome = "raised" /\ call.ret = <<>>)

\* C2 as amended: contradicting evidence without a new statement fails with
\* the error and returns no belief exactly when the observation is not yet in
\* the belief's observations; when it is, the call is the idempotent no-op.
C2_RaisesUnlessIncorporated ==
    (Made /\ Unstated) =>
        /\ ~Repeated => (call.outcome = "raised" /\ call.ret = <<>>
                         /\ belief = call.before)
        /\ Repeated => (call.outcome = "noop" /\ call.ret = <<call.before>>)

\* C2 witness: a call that failed with the error.
C2_Rejected ==
    call.outcome = "raised" /\ Unstated /\ ~Repeated /\ call.ret = <<>>

\* The table of the specification, row by row.
SpecifiedTransition(c, e) ==
    CASE e = CONFIRMING ->
           (CASE c = UNKNOWN -> LOW [] c = LOW -> MEDIUM
              [] c = MEDIUM -> HIGH [] c = HIGH -> HIGH)
      [] e = CONTRADICTING ->
           (CASE c = UNKNOWN -> LOW [] c = LOW -> LOW
              [] c = MEDIUM -> LOW [] c = HIGH -> MEDIUM)
      [] e = NEUTRAL -> c

\* C3: in every update, compute_confidence_transition applied to the belief's
\* confidence and the evidence type gives a confidence level, the one of the
\* specified table, and the update stores that level; every one of the 12
\* pairs is the input of some update.
C3_TransitionTable ==
    call.outcome = "updated" =>
      LET c == call.before.posterior.confidence
          e == call.evidence_type
      IN /\ compute_confidence_transition(c, e) \in ConfidenceLevel
         /\ compute_confidence_transition(c, e) = SpecifiedTransition(c, e)
         /\ Ret.posterior.confidence = SpecifiedTransition(c, e)

\* C3 witness: a MEDIUM belief updated with contradicting evidence is LOW.
C3_MediumContradicted ==
    /\ call.outcome = "updated"
    /\ call.before.posterior.confidence = MEDIUM
    /\ call.evidence_type = CONTRADICTING
    /\ Ret.posterior.confidence = LOW

\* C4 as stated: contradicting evidence never gives a confidence above the
\* current one, in the order UNKNOWN < LOW < MEDIUM < HIGH.
C4_ContradictingNeverIncreases ==
    (call.outcome = "updated" /\ call.evidence_type = CONTRADICTING) =>
        /\ CONFIDENCE_ORDER[compute_confidence_transition(
              call.before.posterior.confidence, CONTRADICTING)]
             <= CONFIDENCE_ORDER[call.before.posterior.confidence]
        /\ CONFIDENCE_ORDER[Ret.posterior.confidence]
             <= CONFIDENCE_ORDER[call.before.posterior.confidence]

\* C4 as amended: contradicting evidence never gives a confidence above the
\* current one when the current one is LOW, MEDIUM or HIGH; from UNKNOWN it
\* gives LOW, one level up.
C4_ContradictingNeverIncreasesKnown ==
    (call.outcome = "updated" /\ call.evidence_type = CONTRADICTING) =>
      LET c == call.before.posterior.confidence
          n == compute_confidence_transition(c, CONTRADICTING)
      IN /\ c # UNKNOWN => CONFIDENCE_ORDER[n] <= CONFIDENCE_ORDER[c]
         /\ c = UNKNOWN => n = LOW
         /\ Ret.posterior.confidence = n

\* C4 witness: a HIGH belief contradicted (with a new statement) is MEDIUM.
C4_HighContradicted ==
    /\ call.outcome = "updated"
    /\ call.evidence_type = CONTRADICTING
    /\ call.before.posterior.confidence = HIGH
    /\ Ret.posterior.confidence = MEDIUM

\* C5 as stated: after every call that returns, the observation id occurs
\* exactly once in the result's observations and exactly once in its
\* posterior.observations_used, the input's entries kept in order.
C5_ExactlyOnceAfterReturn ==
    call.ret # <<>> =>
        /\ Count(Ret.observations, call.observation) = 1
        /\ Count(Ret.posterior.observations_used, call.observation) = 1
        /\ IsPrefix(call.before.observations, Ret.observations)
        /\ IsPrefix(call.before.posterior.observations_used,
                    Ret.posterior.observations_used)

\* C5 as amended: a call that updates returns the input's observations and
\* posterior.observations_used each with the observation id appended, so the
\* id occurs exactly once in each and the earlier entries keep their order; a
\* no-op returns both lists as they were, so an id that was in observations
\* but not in observations_used is still not in observations_used.
C5_AppendedOnce ==
    /\ call.outcome = "updated" =>
          /\ Ret.observations = call.before.observations \o <<call.observation>>
          /\ Ret.posterior.observations_used =
                call.before.posterior.observations_used \o <<call.observation>>
          /\ Count(Ret.observations, call.observation) = 1
          /\ Count(Ret.posterior.observations_used, call.observation) = 1
    /\ call.outcome = "noop" =>
          /\ Ret.observations = call.before.observations
          /\ Ret.posterior.observations_used =
                call.before.posterior.observations_used
          /\ Count(Ret.observations, call.observation) = 1

\* C5 witness: an update of a belief that had an earlier entry in its
\* observations and none in its posterior.observations_used.
C5_UpdatedWithEarlierEntries ==
    /\ call.outcome = "updated"
    /\ call.before.observations # <<>>
    /\ call.before.posterior.observations_used # call.before.observations
    /\ Ret.observations[Len(Ret.observations)] = call.observation
    /\ Ret.posterior.observations_used = <<call.observation>>

\* C6: a call with an observation not yet incorporated and passing validation
\* returns a belief at the input's version plus one; a no-op returns the
\* input's version and a rejected call returns nothing and leaves the
\* caller's belief at its version.
C6_VersionPlusOne ==
    Made =>
        /\ (~Repeated /\ ~Unstated) =>
              (call.outcome = "updated"
               /\ Ret.version = call.before.version + 1)
        /\ call.outcome = "updated" => belief.version = call.before.version + 1
        /\ call.outcome = "noop" =>
              (Ret.version = call.before.version
               /\ belief.version = call.before.version)
        /\ call.outcome = "raised" =>
              (call.ret = <<>> /\ belief.version = call.before.version
               /\ call.arg.version = call.before.version)

\* C6 witness: a second update, from version 2 to version 3.
C6_SecondUpdate ==
    /\ call.outcome = "updated"
    /\ call.before.version = DefaultVersion + 1
    /\ Ret.version = DefaultVersion + 2

\* C7: after every call the argument object is as it was before the call,
\* and an update returns another object with another value.
C7_ArgumentNotMutated ==
    Made =>
        /\ call.arg = call.before
        /\ call.outcome = "updated" => (~call.same /\ Ret # call.before)

\* C7 witness: an update returned a new belief and the argument still lists
\* no more than it did.
C7_UpdatedCopy ==
    /\ call.outcome = "updated"
    /\ ~call.same
    /\ Len(call.arg.observations) < Len(Ret.observations)

\* C8: an update stores the transition of the input's posterior confidence
\* under the evidence type; a LOW belief confirmed is MEDIUM and a HIGH
\* belief contradicted is MEDIUM, whatever the prior's confidence.
C8_ConfidenceFromPosterior ==
    call.outcome = "updated" =>
      LET c == call.before.posterior.confidence
      IN /\ Ret.posterior.confidence =
               compute_confidence_transition(c, call.evidence_type)
         /\ (c = LOW /\ call.evidence_type = CONFIRMING) =>
               Ret.posterior.confidence = MEDIUM
         /\ (c = HIGH /\ call.evidence_type = CONTRADICTING) =>
               Ret.posterior.confidence = MEDIUM

\* C8 witness: a belief with an UNKNOWN prior and a LOW posterior, confirmed.
C8_LowConfirmed ==
    /\ call.outcome = "updated"
    /\ call.before.prior.confidence = UNKNOWN
    /\ call.before.posterior.confidence = LOW
    /\ call.evidence_type = CONFIRMING
    /\ Ret.posterior.confidence = MEDIUM

\* Every id of posterior.observations_used is in observations.
UsedAreObserved(b) ==
    Elems(b.posterior.observations_used) \subseteq Elems(b.observations)

\* C9: in every belief the caller reaches, every id of
\* posterior.observations_used is in observations; and each call leaves the
\* caller with a belief whose observations begin with the observations of the
\* belief it had, so a later version lists every entry of every earlier one.
C9_Provenance ==
    /\ [](UsedAreObserved(belief) /\ (call.ret # <<>> => UsedAreObserved(Ret)))
    /\ [][IsPrefix(belief.observations, belief'.observations)]_vars

\* C9 witness: a belief with earlier entries, updated a second time.
C9_GrownTwice ==
    /\ call.outcome = "updated"
    /\ Len(call.before.observations) >= 1
    /\ call.before.version > DefaultVersion
    /\ UsedAreObserved(belief)

(* ====================================================================== *)
(* Properties of ObservationLifecycle (SpecLifecycle)                       *)
(* ====================================================================== *)

\* C10: register on an id that is INCORPORATED changes nothing, and no
\* register or mark_incorporated call makes an id that get_state reports
\* INCORPORATED be reported PENDING by is_pending, get_pending or get_state.
C10_IncorporatedNeverPendingAgain ==
    [][\A x \in TrackedIds :
          (get_state(x) = INCORPORATED
           /\ last'.op \in {"register", "mark_incorporated"}) =>
              /\ ~is_pending(x)'
              /\ x \notin get_pending'
              /\ get_state(x)' = INCORPORATED
              /\ (last'.op = "register" /\ last'.id = x) =>
                    UNCHANGED <<_pending, _incorporated>>]_vars

\* C11: collect(id) returns True exactly when get_state reports id
\* INCORPORATED, and then the id is no longer tracked; on an id reported
\* PENDING or not tracked it returns False and changes neither set.
C11_CollectOnlyIncorporated ==
    [][\A x \in TrackedIds :
          (last'.op = "collect" /\ last'.id = x) =>
             /\ (last'.ret = "True") <=> (get_state(x) = INCORPORATED)
             /\ (last'.ret = "True") => (get_state(x)' = "KeyError")
             /\ (get_state(x) # INCORPORATED) =>
                   (last'.ret = "False" /\ UNCHANGED trackerVars)]_vars

\* C12: after mark_incorporated(id) the id is INCORPORATED and not pending,
\* whether it was PENDING, INCORPORATED or never registered; the call returns
\* None, changes neither set when the id was INCORPORATED already, and
\* never touches another id.
C12_MarkIncorporated ==
    [][\A x \in TrackedIds :
          (last'.op = "mark_incorporated" /\ last'.id = x) =>
             /\ get_state(x)' = INCORPORATED
             /\ ~is_pending(x)'
             /\ is_incorporated(x)'
             /\ last'.ret = "None"
             /\ (get_state(x) = INCORPORATED) => UNCHANGED trackerVars
             /\ \A y \in TrackedIds \ {x} :
                   /\ is_pending(y)' = is_pending(y)
                   /\ is_incorporated(y)' = is_incorporated(y)]_vars

\* A PENDING id has been marked and is INCORPORATED now, next to an id that is
\* still PENDING.
C12_PendingMoved ==
    /\ last.op = "mark_incorporated"
    /\ last.was = PENDING
    /\ get_state(last.id) = INCORPORATED
    /\ \E y \in TrackedIds : get_state(y) = PENDING

(* ====================================================================== *)
(* Properties of ObservationIndex (SpecPrunable, SpecIndex)                 *)
(* ====================================================================== *)

\* An observation with at least one row in observation_refs.
Referenced(o) == \E c \in CompIds : observation_refs[<<o, c>>] > 0

\* C13: get_prunable returns exactly the ids in the tracker's incorporated
\* set that have no pruned marker, whatever references are recorded.
C13_PrunableIsIncorporatedLessPruned ==
    (last.op = "get_prunable") =>
        (last.result = {x \in ObsIds : is_incorporated(x) /\ is_content_available(x)})

\* get_prunable returned an id that a belief references, and left out an
\* incorporated id whose content is marked pruned.
C13_ReferencedIsPrunable ==
    /\ last.op = "get_prunable"
    /\ \E x \in last.result : Referenced(x)
    /\ \E y \in ObsIds \ last.result :
          is_incorporated(y) /\ ~is_content_available(y)

\* C14: no id that the tracker reports PENDING is in the result of
\* get_prunable.
C14_NoPendingIsPrunable ==
    (last.op = "get_prunable") =>
        (\A x \in last.result : get_state(x) # PENDING /\ ~is_pending(x))

\* The last call was mark_content_pruned(x).
Marked(x) == last.op = "mark_content_pruned" /\ last.id = x

\* C15: is_content_available(x) is True while x has never been marked
\* pruned, becomes False with mark_content_pruned(x), and once False no call
\* of the index makes it True again.
C15_PrunedStaysPruned ==
    /\ \A x \in ObsIds : is_content_available(x)
    /\ [][\A x \in ObsIds :
             /\ Marked(x)' => ~is_content_available(x)'
             /\ ~is_content_available(x) => ~is_content_available(x)'
             /\ (is_content_available(x) /\ ~Marked(x)') =>
                   is_content_available(x)']_vars

\* After an observation was marked pruned, a reference call has been made
\* and the observation is still not available, while another observation the
\* index has references for was never marked and is available.
C15_StillPrunedAfterReferenceCall ==
    /\ last.op \in {"record_reference", "remove_references_for_comprehension"}
    /\ \E x \in ObsIds : ~is_content_available(x)
    /\ \E y \in ObsIds : is_content_available(y) /\ Referenced(y)

\* The last call was record_reference(o, b).
Recorded(o, b) == last.op = "record_reference" /\ last.id = o /\ last.comp = b

\* The last call was remove_references_for_comprehension(b).
Removed(b) == last.op = "remove_references_for_comprehension" /\ last.comp = b

\* C17: b occurs in get_referencing_comprehensions(o) as often as o occurs
\* in get_references_for_comprehension(b), never more than once; it occurs
\* not at all at the start, once after record_reference(o, b), not at all
\* after remove_references_for_comprehension(b), and as before after any
\* other call.
C17_EdgeSet ==
    /\ \A o \in ObsIds, b \in CompIds : get_referencing_comprehensions(o)[b] = 0
    /\ [](\A o \in ObsIds, b \in CompIds :
             /\ get_referencing_comprehensions(o)[b] \in {0, 1}
             /\ get_references_for_comprehension(b)[o] \in {0, 1}
             /\ (get_referencing_comprehensions(o)[b] = 1) <=>
                   (get_references_for_comprehension(b)[o] = 1))
    /\ [][\A o \in ObsIds, b \in CompIds :
             /\ Recorded(o, b)' => (get_referencing_comprehensions(o)[b]' = 1)
             /\ Removed(b)' => (get_references_for_comprehension(b)[o]' = 0)
             /\ (~Recorded(o, b)' /\ ~Removed(b)') =>
                   (get_referencing_comprehensions(o)[b]' = get_referencing_comprehensions(o)[b])]_vars

\* One observation is referenced by two beliefs and one belief references
\* two observations, each once, after a record_reference call on an edge
\* that is present.
C17_ManyToMany ==
    /\ last.op = "record_reference"
    /\ get_referencing_comprehensions(last.id)[last.comp] = 1
    /\ \E o \in ObsIds : \A b \in CompIds : get_referencing_comprehensions(o)[b] = 1
    /\ \E b \in CompIds : \A o \in ObsIds : get_references_for_comprehension(b)[o] = 1
    /\ \E o \in ObsIds, b \in CompIds : get_referencing_comprehensions(o)[b] = 0

\* C18: remove_references_for_comprehension(b) leaves b without edges,
\* returns the number of edges b had, and changes neither the edges of
\* another belief nor the pruned markers.
C18_RemoveReferences ==
    [][\A b \in CompIds :
          Removed(b)' =>
             /\ \A o \in ObsIds : get_references_for_comprehension(b)[o]' = 0
             /\ last'.rowcount = Cardinality({o \in ObsIds : get_references_for_comprehension(b)[o] > 0})
             /\ \A c \in CompIds \ {b} :
                   get_references_for_comprehension(c)' = get_references_for_comprehension(c)
             /\ observation_pruned' = observation_pruned]_vars

\* A belief's edges were removed, more than one of them, while another
\* belief keeps its edge and a pruned marker stays.
C18_RemovedSeveral ==
    /\ last.op = "remove_references_for_comprehension"
    /\ last.rowcount > 1
    /\ \E o \in ObsIds : Referenced(o)
    /\ observation_pruned # {}

(* ====================================================================== *)
(* Properties of BeliefStore (SpecStore)                                    *)
(* ====================================================================== *)

\* The last call was save of a belief with id c.
Saved(c) == last.op = "save" /\ last.comp = c

\* The last call was delete(c).
Deleted(c) == last.op = "delete" /\ last.comp = c

\* Some stored belief lists observation o.
Listed(o) ==
    \E c \in CompIds : get(c) # None /\ o \in Elems(get(c)[1].observations)

\* C16: mark_content_pruned changes no edge, as read from either side, and
\* no stored belief: the rows of the beliefs and the observations list of
\* each are as before.
C16_PruneKeepsReferences ==
    [][(last'.op = "mark_content_pruned") =>
          /\ \A o \in ObsIds :
                get_referencing_comprehensions(o)' = get_referencing_comprehensions(o)
          /\ \A c \in CompIds :
                /\ get_references_for_comprehension(c)' = get_references_for_comprehension(c)
                /\ get(c)' = get(c)
          /\ count' = count]_vars

\* An observation that a stored belief lists and references has been marked
\* pruned.
C16_PrunedWhileReferenced ==
    /\ last.op = "mark_content_pruned"
    /\ ~is_content_available(last.id)
    /\ Listed(last.id)
    /\ Referenced(last.id)

\* C19: after save(b), get(b.id) is b, one record has that id, and every
\* observation b lists has the edge to b.id; a save of an id that is stored
\* leaves the number of records as it was, a save of a new id adds one.
C19_SavedIsStored ==
    /\ []((last.op = "save") =>
             LET b == last.arg[1]
             IN /\ get(b.id) = <<b>>
                /\ Cardinality({r \in comprehensions : r[1] = b.id}) = 1
                /\ \A o \in Elems(b.observations) :
                      /\ get_referencing_comprehensions(o)[b.id] = 1
                      /\ get_references_for_comprehension(b.id)[o] = 1)
    /\ [][\A c \in CompIds :
             Saved(c)' => (count' = IF get(c) = None THEN count + 1 ELSE count)]_vars

\* A belief has been saved over an earlier one of the same id: an edge of
\* the earlier one, to an observation the new one does not list, is on file.
C19_SavedAgain ==
    /\ last.op = "save"
    /\ last.arg[1].observations # <<>>
    /\ \E o \in ObsIds :
          /\ o \notin Elems(last.arg[1].observations)
          /\ get_referencing_comprehensions(o)[last.comp] = 1

\* C20: delete(id) returns True when a belief with the id is stored and
\* False when none is; afterwards get(id) is None and the id has no edge;
\* every other belief is as before, and nothing stored changes when the id
\* was not stored.
C20_Delete ==
    [][\A c \in CompIds :
          Deleted(c)' =>
             /\ last'.ret = (IF get(c) # None THEN "True" ELSE "False")
             /\ get(c)' = None
             /\ \A o \in ObsIds : get_references_for_comprehension(c)[o]' = 0
             /\ \A d \in CompIds \ {c} : get(d)' = get(d)
             /\ (get(c) = None) => (comprehensions' = comprehensions)]_vars

\* A stored belief that had edges was deleted while another belief stays
\* stored with its edges.
C20_DeletedStored ==
    /\ last.op = "delete"
    /\ last.ret = "True"
    /\ last.rowcount > 0
    /\ \E d \in CompIds :
          /\ get(d) # None
          /\ \E o \in ObsIds : get_references_for_comprehension(d)[o] = 1

(* ====================================================================== *)
(* Properties of SimilarityFinder (SpecSimilar)                             *)
(* ====================================================================== *)

\* The last call was reminds_me_of.
Asked == last.op = "reminds_me_of"

\* The belief, the limit, the threshold and the candidates of the last query.
Q == last.arg[1].comprehension

Limit == last.arg[1].limit

MinSimilarity == last.arg[1].min_similarity

Candidates == last.arg[1].candidates

\* The matches the last query returned.
Matches == last.result

\* Candidate c is stored, is not the query belief, is of another domain and
\* is similar enough.
Qualifies(c) ==
    /\ c[1] # Q.id
    /\ get(c[1]) # None
    /\ get(c[1])[1].domain # Q.domain
    /\ Unit - c[2] >= MinSimilarity

\* Candidate c is a vector whose belief is not stored.
Stale(c) == c[1] # Q.id /\ get(c[1]) = None

\* C21: no match of reminds_me_of has the domain of the query belief, and no
\* match has its id.
C21_CrossDomainOnly ==
    Asked =>
        \A i \in 1..Len(Matches) :
            /\ Matches[i].domain # Q.domain
            /\ Matches[i].comprehension_id # Q.id

\* The candidates held the query belief itself and a stored belief of its
\* domain, and a match was returned.
C21_SameDomainSkipped ==
    /\ Asked
    /\ Matches # <<>>
    /\ \E i \in 1..Len(Candidates) : Candidates[i][1] = Q.id
    /\ \E i \in 1..Len(Candidates) :
          /\ Candidates[i][1] # Q.id
          /\ get(Candidates[i][1]) # None
          /\ get(Candidates[i][1])[1].domain = Q.domain

\* C22: the matches of reminds_me_of are in non-increasing order of
\* similarity.
C22_DescendingSimilarity ==
    Asked =>
        \A i \in 1..Len(Matches), j \in 1..Len(Matches) :
            (i < j) => (Matches[i].similarity >= Matches[j].similarity)

\* Two matches of different similarity were returned.
C22_TwoMatches ==
    /\ Asked
    /\ Len(Matches) = 2
    /\ Matches[1].similarity > Matches[2].similarity

\* C23: reminds_me_of returns at most limit matches, each a candidate with
\* its similarity, 1.0 less the candidate's distance, and none below
\* min_similarity.
C23_LimitAndThreshold ==
    Asked =>
        /\ Len(Matches) <= Limit
        /\ \A i \in 1..Len(Matches) :
              /\ Matches[i].similarity >= MinSimilarity
              /\ \E k \in 1..Len(Candidates) :
                    /\ Candidates[k][1] = Matches[i].comprehension_id
                    /\ Matches[i].similarity = Unit - Candidates[k][2]

\* The limit cut the matches short: a further candidate qualified.
C23_CutShort ==
    /\ Asked
    /\ Limit = 1
    /\ Len(Matches) = 1
    /\ \E k \in 1..Len(Candidates) :
          Qualifies(Candidates[k]) /\ Candidates[k][1] # Matches[1].comprehension_id

\* C24: reminds_me_of returns, without an error, the first limit qualifying
\* candidates in their order, whether or not a candidate's belief is
\* missing from the repository; find_similar_to_id of an id that is not
\* stored returns the empty list.
C24_StaleVectorSkipped ==
    /\ Asked =>
          LET qualifying == SelectSeq(Candidates, Qualifies)
              expected == SubSeq(qualifying, 1, IF Len(qualifying) < Limit THEN Len(qualifying) ELSE Limit)
          IN /\ last.ret = "returned"
             /\ Len(Matches) = Len(expected)
             /\ \A i \in 1..Len(Matches) :
                   /\ Matches[i].comprehension_id = expected[i][1]
                   /\ get(Matches[i].comprehension_id) # None
    /\ (last.op = "find_similar_to_id" /\ get(last.comp) = None) =>
          (last.ret = "returned" /\ last.result = <<>>)

\* A candidate nearer than the first match was a vector without a stored
\* belief.
C24_StaleBeforeMatch ==
    /\ Asked
    /\ Matches # <<>>
    /\ \E j \in 1..Len(Candidates), k \in 1..Len(Candidates) :
          /\ j < k
          /\ Stale(Candidates[j])
          /\ Candidates[k][1] = Matches[1].comprehension_id

(* ====================================================================== *)
(* Properties of the accumulation tracker                                 *)
(* (C25 and C29 checked under SpecEdges, C26 to C28 under SpecHotspots)   *)
(* ====================================================================== *)

\* The last call was record_similarity / remove_edges / get_connections /
\* get_hotspots.
EdgeRecorded == last.op = "record_similarity"

EdgesRemoved == last.op = "remove_edges"

Connections == last.op = "get_connections"

Hotspots == last.op = "get_hotspots"

\* The rows of the edge table from s to t.
EdgesOf(s, t) == {r \in similarity_edges : r.source_id = s /\ r.target_id = t}

\* C25: record_similarity is an upsert keyed by (source_id, target_id):
\* the edge table never holds two edges of one ordered pair, and after a
\* call the one edge of its pair carries the similarity and the domains of
\* that call, the edges of the other pairs being as they were.
C25_Upsert ==
    /\ [](\A s \in SourceIds, t \in TargetIds : Cardinality(EdgesOf(s, t)) <= 1)
    /\ [](EdgeRecorded =>
             EdgesOf(last.arg[1].source_id, last.arg[1].target_id) = {last.arg[1]})
    /\ [][EdgeRecorded' =>
             \A s \in SourceIds, t \in TargetIds :
                (s # last'.arg[1].source_id \/ t # last'.arg[1].target_id)
                    => EdgesOf(s, t)' = EdgesOf(s, t)]_vars

\* An edge has been recorded over an edge of the same pair that had another
\* similarity or another source domain, with other edges on file.
C25_RecordedAgain ==
    /\ EdgeRecorded
    /\ last.was = "other"
    /\ Cardinality(similarity_edges) > 1

\* The edges into t, and the domains they come from.
Incoming(t) == {r \in similarity_edges : r.target_id = t}

SourceDomains(t) == {d \in Domains : \E r \in Incoming(t) : r.source_domain = d}

\* The arguments and the list of the last get_hotspots call, and the
\* places of t in that list.
MinDomains == last.arg[1].min_domains

MinConnections == last.arg[1].min_connections

Places(t) == {i \in DOMAIN last.result : last.result[i].comprehension_id = t}

\* C26: get_hotspots(min_domains, min_connections) returns one hotspot for
\* each target whose incoming edges come from at least min_domains distinct
\* source domains and number at least min_connections, and none for any
\* other id; each hotspot reports that number of domains, that number of
\* edges and the mean similarity of those edges.
C26_Hotspots ==
    Hotspots =>
        /\ \A t \in SourceIds \cup TargetIds :
              Cardinality(Places(t)) =
                  IF /\ Cardinality(SourceDomains(t)) >= MinDomains
                     /\ Cardinality(Incoming(t)) >= MinConnections
                     /\ Incoming(t) # {}
                  THEN 1 ELSE 0
        /\ \A i \in DOMAIN last.result :
              LET h == last.result[i]
              IN /\ h.comprehension_id \in SourceIds \cup TargetIds
                 /\ h.domain_count = Cardinality(SourceDomains(h.comprehension_id))
                 /\ h.connection_count = Cardinality(Incoming(h.comprehension_id))
                 /\ h.avg_similarity.sum * h.connection_count
                       = h.avg_similarity.count * SumOfSimilarity(Incoming(h.comprehension_id))

\* get_hotspots(2, 1) has returned the target with edges from two domains
\* and left out a target whose edges come from one.
C26_OneDomainLeftOut ==
    /\ Hotspots
    /\ MinDomains = 2
    /\ MinConnections = 1
    /\ \E t, u \in TargetIds :
          /\ Places(t) # {}
          /\ Incoming(u) # {}
          /\ Places(u) = {}

\* Whether the mean of hotspot g is below the mean of hotspot h.
LowerMean(g, h) ==
    g.avg_similarity.sum * h.avg_similarity.count
        < h.avg_similarity.sum * g.avg_similarity.count

\* C27: the list get_hotspots returns is ordered by domain_count
\* descending and, among hotspots of equal domain_count, by avg_similarity
\* descending.
C27_HotspotOrder ==
    Hotspots =>
        \A i, j \in DOMAIN last.result :
            i < j =>
                \/ last.result[i].domain_count > last.result[j].domain_count
                \/ /\ last.result[i].domain_count = last.result[j].domain_count
                   /\ ~LowerMean(last.result[i], last.result[j])

\* A hotspot with two source domains has come before a hotspot with one
\* source domain and a higher mean similarity.
C27_MoreDomainsFirst ==
    /\ Hotspots
    /\ Len(last.result) = 2
    /\ last.result[1].domain_count > last.result[2].domain_count
    /\ LowerMean(last.result[1], last.result[2])

\* The stored edges with c as source or target, and what get_connections(c)
\* is to report of such an edge: its other endpoint, that endpoint's
\* domain, and the similarity.
Touching(c) == {r \in similarity_edges : r.source_id = c \/ r.target_id = c}

OtherEnd(r, c) ==
    IF r.source_id = c THEN <<r.target_id, r.target_domain, r.similarity>>
    ELSE <<r.source_id, r.source_domain, r.similarity>>

\* C28: get_connections(id) returns one (other_id, other_domain,
\* similarity) tuple per stored edge with id as source or target, other
\* being the opposite endpoint, and the empty list when id has no edge.
C28_Connections ==
    Connections =>
        /\ Len(last.result) = Cardinality(Touching(last.comp))
        /\ \A r \in Touching(last.comp) :
              \E i \in DOMAIN last.result : last.result[i] = OtherEnd(r, last.comp)
        /\ \A i \in DOMAIN last.result :
              \E r \in Touching(last.comp) : last.result[i] = OtherEnd(r, last.comp)

\* C29: remove_edges(id) deletes the edges with id as source or target and
\* returns their number; afterwards get_connections(id) is empty, id is in
\* no list of hotspots (not even with the lowest thresholds, 1 and 1), and
\* the edges without id are as they were.
C29_RemoveEdges ==
    [][\A c \in SourceIds :
          (EdgesRemoved' /\ last'.comp = c) =>
              /\ last'.rowcount = Cardinality(Touching(c))
              /\ Touching(c)' = {}
              /\ get_connections(c)' = <<>>
              /\ \A hotspots \in get_hotspots(1, 1)' :
                    \A i \in DOMAIN hotspots : hotspots[i].comprehension_id # c
              /\ similarity_edges' = similarity_edges \ Touching(c)]_vars

\* remove_edges has deleted an edge from its id and an edge to its id, and
\* an edge between other beliefs is left.
C29_RemovedBothWays ==
    /\ EdgesRemoved
    /\ last.rowcount = 2
    /\ similarity_edges # {}

(* ====================================================================== *)
(* Properties of the store and the accumulation tracker together          *)
(* (checked under SpecStoreEdges)                                         *)
(* ====================================================================== *)

\* C30: after BeliefStore.delete of a belief no edge has it as source or
\* target: get_connections reports none for it and none to it, and it is
\* in no list of hotspots (not even with the lowest thresholds, 1 and 1).
C30_DeleteRemovesEdges ==
    [][\A c \in CompIds :
          Deleted(c)' =>
              /\ Touching(c)' = {}
              /\ get_connections(c)' = <<>>
              /\ \A d \in CompIds :
                    \A i \in DOMAIN get_connections(d)' : get_connections(d)'[i][1] # c
              /\ \A hotspots \in get_hotspots(1, 1)' :
                    \A i \in DOMAIN hotspots : hotspots[i].comprehension_id # c]_vars

(* ====================================================================== *)
(* The two sets of ObservationLifecycle (SpecLifecycle)                   *)
(* ====================================================================== *)

\* C35: no observation id is in both the pending set and the incorporated
\* set, so len() and stats()['total'] are the number of distinct ids
\* tracked.
C35_DisjointSets ==
    /\ _pending \cap _incorporated = {}
    /\ __len__ = Cardinality(_pending \cup _incorporated)
    /\ stats.total = Cardinality(_pending \cup _incorporated)

(* ====================================================================== *)
(* A belief over its updates (SpecChain)                                  *)
(* ====================================================================== *)

\* C36: a belief created at version 1 with no observations has, after any
\* updates, no-ops and rejections, version = 1 + the length of its
\* observations list, and the list names no id twice.
C36_VersionCountsObservations ==
    /\ belief.version = 1 + Len(belief.observations)
    /\ \A o \in ObsIds : Count(belief.observations, o) <= 1

\* After two updates a call was a no-op or was rejected.
C36_TwoUpdatesThenNone ==
    /\ belief.version = 3
    /\ call.outcome \in {"noop", "raised"}

\* C39: a belief whose posterior confidence is LOW, MEDIUM or HIGH is never
\* UNKNOWN after a call, whatever the evidence type.
C39_NeverBackToUnknown ==
    [][belief.posterior.confidence # UNKNOWN
          => belief'.posterior.confidence # UNKNOWN]_vars

\* A LOW belief has been contradicted and is LOW.
C39_LowContradicted ==
    /\ call.outcome = "updated"
    /\ call.evidence_type = CONTRADICTING
    /\ call.before.posterior.confidence = LOW
    /\ belief.posterior.confidence = LOW

(* ====================================================================== *)
(* The references of a stored belief (SpecStore)                          *)
(* ====================================================================== *)

\* The observation ids get_references_for_comprehension(c) returns, and the
\* ids the belief stored under c lists (none when no belief is stored).
References(c) == {o \in ObsIds : get_references_for_comprehension(c)[o] > 0}

StoredObservations(c) ==
    IF get(c) = None THEN {} ELSE Elems(get(c)[1].observations)

\* C37 as stated: the ids get_references_for_comprehension(id) returns are
\* the ids the belief stored under id lists, and none when no belief is
\* stored under id.
C37_ReferencesAreStored ==
    \A c \in CompIds : References(c) = StoredObservations(c)

\* C37 as the code has it: the ids returned include the ids the stored
\* belief lists, and are none when no belief is stored under id; a save
\* adds the ids of the saved belief to the ids returned and removes none.
C37_ReferencesCoverStored ==
    /\ [](\A c \in CompIds :
             /\ StoredObservations(c) \subseteq References(c)
             /\ (get(c) = None) => (References(c) = {}))
    /\ [][\A c \in CompIds :
             Saved(c)' =>
                 References(c)' = References(c) \cup Elems(last'.arg[1].observations)]_vars

\* A belief that lists no observation has been saved over a belief of the
\* same id that listed one: the reference of the earlier one is on file.
C37_StaleReference ==
    /\ last.op = "save"
    /\ StoredObservations(last.comp) = {}
    /\ References(last.comp) # {}

(* ====================================================================== *)
(* The matches among all indexed beliefs (SpecSimilar)                    *)
(* ====================================================================== *)

\* The similarities the index gives belief c to the query belief (one per
\* vector stored for c).
IndexedSimilarity(c) ==
    {Unit - distance_of(v[2], embed(Q)) :
        v \in {w \in comprehension_vectors :
                  \E m \in vector_id_map : m[1] = w[1] /\ m[2] = c}}

\* The indexed beliefs that qualify for the last query: stored, not the
\* query belief, of another domain, similar enough.
QualifyingIds ==
    {c \in BeliefIds :
        /\ c # Q.id
        /\ get(c) # None
        /\ get(c)[1].domain # Q.domain
        /\ \E x \in IndexedSimilarity(c) : x >= MinSimilarity}

\* The smaller of two numbers.
Smaller(a, b) == IF a < b THEN a ELSE b

\* The ids of the matches.
MatchedIds == {Matches[i].comprehension_id : i \in 1..Len(Matches)}

\* C38 as stated: reminds_me_of returns the min(limit, number of
\* qualifying beliefs) most similar of the indexed beliefs that qualify,
\* whatever lies nearer to the query.
C38_MostSimilarOfIndex ==
    Asked =>
        /\ Len(Matches) = Smaller(Limit, Cardinality(QualifyingIds))
        /\ MatchedIds \subseteq QualifyingIds
        /\ \A i \in 1..Len(Matches) :
              \A c \in QualifyingIds \ MatchedIds :
                 \A x \in IndexedSimilarity(c) : x <= Matches[i].similarity

\* C38 as the code has it: reminds_me_of returns the min(limit, number)
\* most similar of the qualifying beliefs among the 3 * limit vectors
\* nearest to the query; they are the most similar of all qualifying
\* beliefs of the index when the index holds no more than 3 * limit vectors.
C38_MostSimilarOfFetched ==
    Asked =>
        LET fetched == {Candidates[k][1] : k \in {j \in 1..Len(Candidates) : Qualifies(Candidates[j])}}
        IN /\ Len(Candidates) <= Limit * OverFetch
           /\ Len(Matches) = Smaller(Limit, Cardinality(fetched))
           /\ MatchedIds \subseteq fetched
           /\ fetched \subseteq QualifyingIds
           /\ \A i \in 1..Len(Matches) :
                 \A c \in fetched \ MatchedIds :
                    \A x \in IndexedSimilarity(c) : x <= Matches[i].similarity
           /\ (Cardinality(comprehension_vectors) <= Limit * OverFetch) =>
                 fetched = QualifyingIds

\* A belief qualified and no match was returned: the query belief's own
\* vector, a same-domain vector and a stale vector were the 3 * limit
\* nearest.
C38_QualifyingNotFetched ==
    /\ Asked
    /\ Limit = 1
    /\ Matches = <<>>
    /\ QualifyingIds # {}

(* ====================================================================== *)
(* The vector store as a map from id to vector (SpecVectors)              *)
(* ====================================================================== *)

\* Id c is stored: it has a row in the id map.
VectorStored(c) == \E m \in vector_id_map : m[2] = c

\* The vectors query_knn can report for id c: those whose rowid the id map
\* gives to c.
VectorsOf(c) ==
    {v[2] : v \in {w \in comprehension_vectors :
                      \E m \in vector_id_map : m[1] = w[1] /\ m[2] = c}}

\* C33: the vector store is a map from id to vector.  count() is the number
\* of ids stored; after add(c, e) id c is stored with vector e alone and
\* count() has grown by one if c was not stored; after remove(c), which
\* returns True exactly when c was stored, c is not stored; no call on c
\* changes what is stored for another id, and opening a store changes
\* nothing.
C33_MapFromIdToVector ==
    /\ [](/\ VectorStore_count = Cardinality({c \in CompIds : VectorStored(c)})
          /\ \A c \in CompIds : VectorStored(c) <=> (VectorsOf(c) # {}))
    /\ [][\A c \in CompIds :
             /\ (last'.op = "vector_add" /\ last'.comp = c) =>
                   /\ VectorsOf(c)' = {last'.arg[1]}
                   /\ VectorStore_count' = VectorStore_count + (IF VectorStored(c) THEN 0 ELSE 1)
             /\ (last'.op = "vector_remove" /\ last'.comp = c) =>
                   /\ (last'.ret = "True") <=> VectorStored(c)
                   /\ ~VectorStored(c)'
             /\ (last'.op \in {"vector_add", "vector_remove"} /\ last'.comp # c) =>
                   VectorsOf(c)' = VectorsOf(c)
             /\ (last'.op = "VectorStore") =>
                   VectorsOf(c)' = VectorsOf(c)]_vars

(* ====================================================================== *)
(* Two callers of one store (SpecRace)                                    *)
(* ====================================================================== *)

\* No caller is inside a call.
Quiet == \A c \in Callers : pc[c] = Idle

\* C34: when the saves and deletes of two callers on one id are over, the
\* reference index holds edges of the id only if a belief of the id is
\* stored.
C34_NoEdgeWithoutBelief ==
    Quiet =>
        \A c \in CompIds : (References(c) # {}) => (get(c) # None)

(* ====================================================================== *)
(* Two callers updating one stored belief (SpecCycles)                    *)
(* ====================================================================== *)

ConnectionsIn(T, c) ==
    outgoing_tuples(fetchall({r \in T : r.source_id = c}))
        \o incoming_tuples(fetchall({r \in T : r.target_id = c}))

\* C31: a get_connections(id) that runs next to record_similarity or
\* remove_edges calls returns the connections of one state the edge table
\* had during the call.
C31_ConnectionsOfOneState ==
    Connections =>
        \E T \in last.arg[1] : last.result = ConnectionsIn(T, last.comp)

====
